---- MODULE Spec2Model ----
(***************************************************************************)
(* Model of the audit report generator: generate_report_ppt.py (loader,    *)
(* record normalisation, KPI aggregation, rollups, narrative requests,     *)
(* text clean-up, HTML and slide-deck assembly) and ai_utils.py (the       *)
(* text-generation call).                                                  *)
(*                                                                         *)
(* Text is a sequence of one-character strings, so that case folding,      *)
(* regular-expression matching and replacement are computed character by   *)
(* character.  Numbers are integers counting thousandths (8500 is 8.5).    *)
(***************************************************************************)
EXTENDS Integers, Sequences, FiniteSets, TLC

VARIABLES
    pc,     \* position in main, or in the function a specification applies
    raw,    \* the table as load_data returned it
    df,     \* the table main works on (prepare_records changes it in place)
    kpis,   \* the result of compute_kpis
    err,    \* the exception that ended the run, "none" while there is none
    location_risks,  \* the sorted location rollup of create_location_analysis_slide
    hazard_risks,    \* the sorted hazard rollup of create_hazard_analysis_slide
    location_lines,  \* the groups the location slide lists
    hazard_lines,    \* the groups the hazard slide lists
    text,   \* a narrative text handed to clean_html_text
    clean1, \* clean_html_text(text)
    clean2, \* clean_html_text(clean1)
    source,          \* the data file: missing, not JSON, or a JSON array of objects
    company_name,    \* the company_name argument of the report builders
    audit_date,      \* the audit_date argument of the report builders
    logo_file,       \* the logo file: readable, missing, or present but unreadable
    USE_GEMINI,      \* ai_utils.USE_GEMINI
    remote_calls,    \* how often generate_text has used the remote service
    last_call,       \* the latest generate_text call: what the service did, what was returned
    requests,        \* the narrative slots requested from generate_text, in order
    prompt,          \* what the latest prompt handed to generate_text was built from
    faults,          \* the collaborators, other than the text service, that have failed
    logo_base64,     \* the result of encode_image_to_base64
    charts,          \* the names of the charts built, in order
    summaries,       \* chart name -> insight text
    exec_summary,    \* the executive summary text
    priority_details,\* priority -> detail text
    html,            \* the HTML report on storage
    slides,          \* the slides added to the presentation, in order
    ppt_path,        \* the result of generate_ppt_report
    writes           \* the files written to storage, in order

rollupVars == <<location_risks, hazard_risks, location_lines, hazard_lines>>
cleanVars == <<text, clean1, clean2>>
textVars == <<USE_GEMINI, remote_calls, last_call, requests, prompt>>
narrativeVars == <<summaries, exec_summary, priority_details>>
inputVars == <<source, company_name, audit_date, logo_file>>
mainVars == <<inputVars, faults, logo_base64, charts, html, ppt_path, writes>>
vars == <<pc, raw, df, kpis, err, rollupVars, cleanVars, textVars,
          narrativeVars, mainVars, slides>>

\* ------------------------------------------------------------------ bounds
\* Largest number of rows of a table drawn for compute_kpis.
MaxKpiRows == 3
\* Largest number of objects of a JSON array drawn for prepare_records.
MaxPrepRows == 2
\* Largest number of rows of a table drawn for the rollups.
MaxRollupRows == 3
\* Largest number of pieces (characters, entities, tags) of a text drawn
\* for clean_html_text.
MaxPieces == 3
\* Largest number of objects of the data file of a run of main.
MaxMainRows == 2
\* Largest number of rows (each a group of its own) of a table drawn for
\* the groups the rollup slides list.
MaxHeadRows == 11
\* Largest number of rows of a table drawn for the top-N selections.
MaxTopRows == 6
\* Largest number of rows of a table drawn for generate_priority_details.
MaxDetailRows == 22
\* Largest number of records handed to build_html.
MaxHtmlRows == 32
\* Largest number of runs of main on the same data file.
MaxRuns == 2

\* ------------------------------------------------------------------ text
LowerLetters == <<"a","b","c","d","e","f","g","h","i","j","k","l","m",
                  "n","o","p","q","r","s","t","u","v","w","x","y","z">>
UpperLetters == <<"A","B","C","D","E","F","G","H","I","J","K","L","M",
                  "N","O","P","Q","R","S","T","U","V","W","X","Y","Z">>

\* str.upper() on one character.
UpperChar(c) ==
    IF \E i \in DOMAIN LowerLetters : LowerLetters[i] = c
    THEN UpperLetters[CHOOSE i \in DOMAIN LowerLetters : LowerLetters[i] = c]
    ELSE c

\* str.upper()
Upper(s) == [i \in DOMAIN s |-> UpperChar(s[i])]

HIGH == <<"H","I","G","H">>
MEDIUM == <<"M","E","D","I","U","M">>
LOW == <<"L","O","W">>

\* ------------------------------------------------------------------ cells
\* A cell of a pandas table: a string, a number, NaN (the key was missing
\* from the row's object) or None (the key held JSON null).
Str(s) == [k |-> "str", s |-> s, n |-> 0]
Num(n) == [k |-> "num", s |-> <<>>, n |-> n]
NaN == [k |-> "nan", s |-> <<>>, n |-> 0]
None == [k |-> "none", s |-> <<>>, n |-> 0]
\* A variable that has not been assigned yet.
Unset == [k |-> "unset", s |-> <<>>, n |-> 0]

\* Series.str.upper(): strings are folded, every other cell becomes NaN.
StrUpper(cell) == IF cell.k = "str" THEN Str(Upper(cell.s)) ELSE NaN

\* ------------------------------------------------------------------ compute_kpis
RECURSIVE CountTrue(_)
\* Series.sum() of a boolean series.
CountTrue(bs) == IF bs = <<>> THEN 0
                 ELSE (IF bs[1] THEN 1 ELSE 0) + CountTrue(Tail(bs))

\* (df["Priority"].str.upper() == lit).sum() if "Priority" in df else 0
PriorityCountNoFold(d, lit) ==
    IF "Priority" \in d.cols
    THEN CountTrue([i \in DOMAIN d.rows |-> d.rows[i]["Priority"] = Str(lit)])
    ELSE 0

PriorityCount(d, lit) ==
    IF "Priority" \in d.cols
    THEN CountTrue([i \in DOMAIN d.rows |->
                        StrUpper(d.rows[i]["Priority"]) = Str(lit)])
    ELSE 0

compute_kpis_total_of_buckets(d) ==
    LET h == PriorityCount(d, HIGH)
        m == PriorityCount(d, MEDIUM)
        l == PriorityCount(d, LOW)
    IN [high |-> h, med |-> m, low |-> l, total |-> h + m + l]

compute_kpis(d) ==
    [high |-> PriorityCount(d, HIGH),
     med |-> PriorityCount(d, MEDIUM),
     low |-> PriorityCount(d, LOW),
     total |-> Len(d.rows)]

NoKpis == [high |-> -1, med |-> -1, low |-> -1, total |-> -1]
NoTable == [cols |-> {}, rows |-> <<>>]
NoClean ==
    /\ text = None
    /\ clean1 = <<>>
    /\ clean2 = <<>>

\* COMPANY_NAME = "Chola MS Risk Services"
COMPANY_NAME == <<"C","h","o","l","a"," ","M","S"," ","R","i","s","k"," ",
                  "S","e","r","v","i","c","e","s">>

\* audit_date = AUDIT_DATE or now().strftime("%Y-%m-%d"): the date of a run.
RunDate == <<"2","0","2","4","-","0","1","-","0","5">>

\* The charts of main, in the order main builds them.
ChartNames ==
    <<"Hazard Risk Breakdown", "Location vs Hazard Analysis",
      "Risk Contribution by Hazard Type", "Hierarchical Risk Distribution",
      "Risk vs Priority Correlation", "Total Risk Assessment by Location">>
ChartSet == { ChartNames[i] : i \in DOMAIN ChartNames }

\* The priorities of main's priority_details, in order.
Priorities == <<"HIGH", "MEDIUM", "LOW", "ALL">>
PrioritySet == { Priorities[i] : i \in DOMAIN Priorities }

\* The content of a prompt: the rows of the table printed in it (by row
\* number, in the order printed), the KPI counts and the example lines.
NoPrompt == [rows |-> <<>>, kpis |-> NoKpis, lines |-> <<>>]

\* The states of the logo file.
LogoFiles == {"ok", "missing", "unreadable"}

\* The title slide, with the logo picture when the file can be read.
TitleSlide(file) ==
    [title |-> "Title", body |-> <<>>, findings |-> <<>>, picture |-> file = "ok",
     stats |-> NoKpis]

\* OUTPUT_HTML = "report.html"
OUTPUT_HTML == <<"r","e","p","o","r","t",".","h","t","m","l">>

\* The HTML report as written by build_html: it shows the audit date.
HtmlFile(date, content) == [path |-> OUTPUT_HTML, date |-> date, content |-> content]

\* The slide deck as saved by create_ppt_report: its title slide shows
\* the audit date.
DeckFile(path, date, content) == [path |-> path, date |-> date, content |-> content]

NoHtml == [written |-> FALSE, exec_summary |-> Unset,
           insights |-> [c \in ChartSet |-> Unset], priority_all |-> Unset,
           kpis |-> [high |-> -1, med |-> -1, low |-> -1, total |-> -1],
           rows |-> 0, logo |-> FALSE, table |-> <<>>, summary |-> <<>>]

\* The state of main's variables before main runs.
NoMain ==
    /\ source = [kind |-> "array", objs |-> <<>>]
    /\ company_name = COMPANY_NAME
    /\ audit_date = RunDate
    /\ logo_file = "missing"
    /\ USE_GEMINI = TRUE
    /\ remote_calls = 0
    /\ last_call = [outcome |-> "none", result |-> Unset]
    /\ requests = <<>>
    /\ prompt = NoPrompt
    /\ faults = {}
    /\ logo_base64 = "unset"
    /\ charts = <<>>
    /\ summaries = [c \in ChartSet |-> Unset]
    /\ exec_summary = Unset
    /\ priority_details = [q \in PrioritySet |-> Unset]
    /\ html = NoHtml
    /\ slides = <<>>
    /\ ppt_path = Unset
    /\ writes = IF html.written THEN <<HtmlFile(audit_date, html)>> ELSE <<>>
NoRollups ==
    /\ location_risks = <<>>
    /\ hazard_risks = <<>>
    /\ location_lines = <<>>
    /\ hazard_lines = <<>>

\* ------------------------------------------------------------------ inputs of compute_kpis
\* Priority cells: the three labels in several spellings, the empty
\* string, labels that only resemble one, a missing key and JSON null.
PrioritySamples ==
    { Str(HIGH), Str(<<"h","i","g","h">>), Str(<<"H","i","g","h">>),
      Str(MEDIUM), Str(<<"m","e","d","i","u","m">>),
      Str(LOW), Str(<<"L","o","w">>),
      Str(<<>>), Str(<<"H","I","G","H"," ">>), Str(<<"C","R","I","T">>),
      NaN, None }

SeqsUpTo(S, n) == UNION { [1..m -> S] : m \in 0..n }

\* Tables with a Priority column, and tables without one.
KpiTables ==
    { [cols |-> {"Priority"}, rows |-> [i \in DOMAIN ps |-> [c \in {"Priority"} |-> ps[i]]]]
        : ps \in SeqsUpTo(PrioritySamples, MaxKpiRows) }
    \cup
    { [cols |-> {"Observation"}, rows |-> [i \in 1..m |-> [c \in {"Observation"} |-> Str(<<"x">>)]]]
        : m \in 0..MaxKpiRows }

InitKpi ==
    /\ pc = "kpis"
    /\ raw = NoTable
    /\ df \in KpiTables
    /\ kpis = NoKpis
    /\ err = "none"
    /\ NoRollups
    /\ NoClean
    /\ NoMain

\* kpis = compute_kpis(df)
ComputeKpis ==
    /\ pc = "kpis"
    /\ kpis' = compute_kpis(df)
    /\ pc' = "logo"
    /\ UNCHANGED <<raw, df, err, rollupVars, cleanVars, textVars, narrativeVars, mainVars, slides>>

NextKpi == ComputeKpis

SpecKpi == InitKpi /\ [][NextKpi]_vars

\* ------------------------------------------------------------------ claims on compute_kpis
\* Case-insensitive equality of a priority cell with a label, stated
\* character by character.
SameIgnoringCase(cell, lit) ==
    /\ cell.k = "str"
    /\ Len(cell.s) = Len(lit)
    /\ \A i \in DOMAIN lit :
          \E j \in DOMAIN UpperLetters :
              /\ lit[i] = UpperLetters[j]
              /\ cell.s[i] \in {UpperLetters[j], LowerLetters[j]}

Matching(d, lit) ==
    IF "Priority" \in d.cols
    THEN { i \in DOMAIN d.rows : SameIgnoringCase(d.rows[i]["Priority"], lit) }
    ELSE {}

\* C2: for every table, compute_kpis returns total = number of rows and
\* high + med + low <= total.
C2_TotalAndBuckets ==
    pc = "logo" =>
        /\ kpis.total = Len(df.rows)
        /\ kpis.high + kpis.med + kpis.low <= kpis.total

\* C2 witness: KPIs computed for a table holding a counted and an
\* uncounted row.
C2_Witness ==
    /\ pc = "logo"
    /\ Len(df.rows) = 3
    /\ kpis.high + kpis.med + kpis.low = 2

\* C6: a row is counted in high, med or low exactly when its priority
\* equals HIGH, MEDIUM or LOW ignoring case; every other row (other text,
\* empty, missing) is counted in total only.
C6_BucketsExact ==
    pc = "logo" =>
        /\ kpis.high = Cardinality(Matching(df, HIGH))
        /\ kpis.med = Cardinality(Matching(df, MEDIUM))
        /\ kpis.low = Cardinality(Matching(df, LOW))
        /\ kpis.total = Len(df.rows)

\* C6 witness: a mixed-case label is counted, and an empty and a missing
\* priority are in total only.
C6_Witness ==
    /\ pc = "logo"
    /\ "Priority" \in df.cols
    /\ Len(df.rows) = 3
    /\ df.rows[1]["Priority"] = Str(<<"H","i","g","h">>)
    /\ df.rows[2]["Priority"] = Str(<<>>)
    /\ df.rows[3]["Priority"] = NaN
    /\ kpis = [high |-> 1, med |-> 0, low |-> 0, total |-> 3]

\* ------------------------------------------------------------------ tables
Fields == {"Sr. No", "Observation", "Recommendation", "Priority",
           "Priority_Score", "Type of Hazard", "Location_Norm",
           "Risk_Score", "Asset Category"}

TextFields == {"Observation", "Recommendation", "Priority", "Type of Hazard",
               "Location_Norm", "Asset Category"}

\* df[col]
Column(d, col) == [i \in DOMAIN d.rows |-> d.rows[i][col]]

\* df[col] = cells
Assign(d, col, cells) ==
    [cols |-> d.cols \cup {col},
     rows |-> [i \in DOMAIN d.rows |->
                 [c \in d.cols \cup {col} |->
                     IF c = col THEN cells[i] ELSE d.rows[i][c]]]]

\* pd.DataFrame(json.load(f)) on an array of objects: one column per key
\* seen in any object, NaN where an object lacks the key.
DataFrame(objs) ==
    LET cols == UNION { DOMAIN objs[i] : i \in DOMAIN objs }
    IN [cols |-> cols,
        rows |-> [i \in DOMAIN objs |->
                    [c \in cols |-> IF c \in DOMAIN objs[i] THEN objs[i][c] ELSE NaN]]]

\* ------------------------------------------------------------------ numbers
Digits == <<"0","1","2","3","4","5","6","7","8","9">>
IsDigit(c) == \E i \in DOMAIN Digits : Digits[i] = c
DigitVal(c) == (CHOOSE i \in DOMAIN Digits : Digits[i] = c) - 1

RECURSIVE IntOf(_)
IntOf(s) == IF s = <<>> THEN 0
            ELSE IntOf(SubSeq(s, 1, Len(s) - 1)) * 10 + DigitVal(s[Len(s)])

\* The strings pd.to_numeric parses, among strings of digits, dots and
\* letters without sign or exponent: digits with at most one dot.
IsNumeral(s) ==
    LET dots == { i \in DOMAIN s : s[i] = "." }
    IN /\ \E i \in DOMAIN s : IsDigit(s[i])
       /\ \A i \in DOMAIN s : IsDigit(s[i]) \/ s[i] = "."
       /\ Cardinality(dots) <= 1

\* The value of a numeral, in thousandths.
ParseNum(s) ==
    LET dots == { i \in DOMAIN s : s[i] = "." }
        dot == IF dots = {} THEN Len(s) + 1 ELSE CHOOSE i \in dots : TRUE
        whole == SubSeq(s, 1, dot - 1)
        frac == SubSeq(s, dot + 1, Len(s))
        frac3 == SubSeq(frac \o <<"0","0","0">>, 1, 3)
    IN IntOf(whole) * 1000 + IntOf(frac3)

\* A cell for which the conversion raised.
RaiseCell == [k |-> "raise", s |-> <<>>, n |-> 0]

to_numeric_raise(cell) ==
    IF cell.k = "num" THEN cell
    ELSE IF cell.k = "str" /\ IsNumeral(cell.s) THEN Num(ParseNum(cell.s))
    ELSE IF cell.k = "str" THEN RaiseCell
    ELSE NaN

\* pd.to_numeric(..., errors="coerce") on one cell: what does not parse
\* becomes NaN, nothing raises.
to_numeric(cell) ==
    IF cell.k = "num" THEN cell
    ELSE IF cell.k = "str" /\ IsNumeral(cell.s) THEN Num(ParseNum(cell.s))
    ELSE NaN

\* Series.fillna(v) on one cell
fillna(cell, v) == IF cell.k \in {"nan", "none"} THEN v ELSE cell

\* Series.astype(int) on one cell: truncation towards zero
astype_int(cell) ==
    Num(IF cell.n >= 0 THEN (cell.n \div 1000) * 1000
        ELSE -(((-cell.n) \div 1000) * 1000))

\* ------------------------------------------------------------------ prepare_records
\* df[name] if name in df.columns else pd.Series([default]*len(df))
safe_get_col(d, name, default) ==
    IF name \in d.cols THEN Column(d, name)
    ELSE [i \in DOMAIN d.rows |-> default]

Ok(d) == [d |-> d, err |-> "none"]
Raised(d, e) == [d |-> d, err |-> e]

\* One assignment of prepare_records, by source line.  df.get(col, 0) is
\* the scalar 0 when the column is absent; pd.to_numeric returns a scalar
\* unchanged, and a scalar has no fillna.
PrepLine(d, line) ==
    CASE line = 45 ->
           Ok(Assign(d, "Sr. No",
                     IF "Sr. No" \in d.cols THEN Column(d, "Sr. No")
                     ELSE [i \in DOMAIN d.rows |-> Num(i * 1000)]))
      [] line = 46 -> Ok(Assign(d, "Observation", safe_get_col(d, "Observation", Str(<<>>))))
      [] line = 47 -> Ok(Assign(d, "Recommendation", safe_get_col(d, "Recommendation", Str(<<>>))))
      [] line = 48 -> Ok(Assign(d, "Priority", safe_get_col(d, "Priority", Str(<<>>))))
      [] line = 49 ->
           IF "Priority_Score" \in d.cols
           THEN LET c == [i \in DOMAIN d.rows |->
                            to_numeric(d.rows[i]["Priority_Score"])]
                IN IF \E i \in DOMAIN c : c[i].k = "raise"
                   THEN Raised(d, "ValueError@49")
                   ELSE Ok(Assign(d, "Priority_Score",
                                  [i \in DOMAIN c |-> astype_int(fillna(c[i], Num(0)))]))
           ELSE Raised(d, "AttributeError@49")
      [] line = 50 -> Ok(Assign(d, "Type of Hazard", safe_get_col(d, "Type of Hazard", Str(<<>>))))
      [] line = 51 -> Ok(Assign(d, "Location_Norm", safe_get_col(d, "Location_Norm", Str(<<>>))))
      [] line = 52 ->
           IF "Risk_Score" \in d.cols
           THEN LET c == [i \in DOMAIN d.rows |->
                            to_numeric(d.rows[i]["Risk_Score"])]
                IN IF \E i \in DOMAIN c : c[i].k = "raise"
                   THEN Raised(d, "ValueError@52")
                   ELSE Ok(Assign(d, "Risk_Score",
                                  [i \in DOMAIN c |-> fillna(c[i], Num(0))]))
           ELSE Raised(d, "AttributeError@52")
      [] line = 53 -> Ok(Assign(d, "Asset Category", safe_get_col(d, "Asset Category", Str(<<>>))))

RECURSIVE PrepFrom(_, _)
\* Lines line..53 in order, stopping at the first that raises; the table
\* keeps the assignments made before it.
PrepFrom(d, line) ==
    IF line > 53 THEN Ok(d)
    ELSE LET r == PrepLine(d, line)
         IN IF r.err = "none" THEN PrepFrom(r.d, line + 1) ELSE r

prepare_records(d) == PrepFrom(d, 45)

\* ------------------------------------------------------------------ inputs of prepare_records
NotANumber == <<"n","o","t","_","a","_","n","u","m","b","e","r">>

\* (Priority_Score, Risk_Score) of an object.
ScorePairs ==
    { <<Num(3000), Num(8500)>>,
      <<Str(<<"7">>), Str(<<"2",".","5">>)>>,
      <<Str(NotANumber), Num(1200)>>,
      <<Num(2700), Str(NotANumber)>>,
      <<None, None>>,
      <<Str(<<>>), Str(<<"x">>)>> }

FullObject(sp) ==
    [f \in Fields |->
        CASE f = "Sr. No" -> Num(5000)
          [] f = "Priority" -> Str(<<"H","i","g","h">>)
          [] f = "Priority_Score" -> sp[1]
          [] f = "Risk_Score" -> sp[2]
          [] OTHER -> Str(<<"x">>)]

Restrict(f, K) == [x \in K |-> f[x]]

\* The keys an object holds: all nine, all but one, one only, or none.
KeySets == {Fields} \cup { Fields \ {f} : f \in Fields }
             \cup { {f} : f \in {"Risk_Score", "Priority"} } \cup { {} }

PrepObjects == { Restrict(FullObject(sp), K) : sp \in ScorePairs, K \in KeySets }

InitPrep ==
    /\ pc = "prepare"
    /\ raw \in { DataFrame(objs) : objs \in SeqsUpTo(PrepObjects, MaxPrepRows) }
    /\ df = raw
    /\ kpis = NoKpis
    /\ err = "none"
    /\ NoRollups
    /\ NoClean
    /\ NoMain

\* df = prepare_records(df)
PrepareRecords ==
    /\ pc = "prepare"
    /\ LET r == prepare_records(df)
       IN /\ df' = r.d
          /\ err' = r.err
          /\ pc' = IF r.err = "none" THEN "kpis" ELSE "aborted"
    /\ UNCHANGED <<raw, kpis, rollupVars, cleanVars, textVars, narrativeVars, mainVars, slides>>

NextPrep == PrepareRecords

SpecPrep == InitPrep /\ [][NextPrep]_vars

\* ------------------------------------------------------------------ claims on prepare_records
TypeCorrect(f, cell) ==
    CASE f \in TextFields -> cell.k = "str"
      [] f \in {"Sr. No", "Priority_Score"} -> cell.k = "num" /\ cell.n % 1000 = 0
      [] f = "Risk_Score" -> cell.k = "num"

\* C3: after prepare_records every row has all nine fields with a
\* type-correct, non-null value, whichever keys the source objects held
\* (stated here for the tables that have a row).
C3_AllFieldsTypeCorrect ==
    (pc \in {"kpis", "aborted"} /\ Len(raw.rows) > 0) =>
        /\ err = "none"
        /\ Fields \subseteq df.cols
        /\ \A i \in DOMAIN df.rows : \A f \in Fields : TypeCorrect(f, df.rows[i][f])

\* The table has the numeric column, and row i holds a value in it that is
\* no number.
NotCoercibleAt(d, col, i) ==
    /\ col \in d.cols
    /\ i \in DOMAIN d.rows
    /\ d.rows[i][col].k = "str"
    /\ ~IsNumeral(d.rows[i][col].s)

CodeOrder == <<" ", "&", ".", "0","1","2","3","4","5","6","7","8","9",
               ";", "<", ">",
               "A","B","C","D","E","F","G","H","I","J","K","L","M",
               "N","O","P","Q","R","S","T","U","V","W","X","Y","Z", "_",
               "a","b","c","d","e","f","g","h","i","j","k","l","m",
               "n","o","p","q","r","s","t","u","v","w","x","y","z">>
Code(c) == CHOOSE i \in DOMAIN CodeOrder : CodeOrder[i] = c

RECURSIVE StrLess(_, _)
\* s < t for Python strings
StrLess(s, t) ==
    IF t = <<>> THEN FALSE
    ELSE IF s = <<>> THEN TRUE
    ELSE IF s[1] # t[1] THEN Code(s[1]) < Code(t[1])
    ELSE StrLess(Tail(s), Tail(t))

RECURSIVE SortedKeys(_)
\* The strings of a set in ascending order.
SortedKeys(S) ==
    IF S = {} THEN <<>>
    ELSE LET m == CHOOSE x \in S : \A y \in S \ {x} : StrLess(x, y)
         IN <<m>> \o SortedKeys(S \ {m})

\* The group keys of groupby(key): the distinct strings of the column;
\* rows whose key is NaN or None are in no group (dropna=True).
GroupKeys(d, key) ==
    { d.rows[i][key].s : i \in { j \in DOMAIN d.rows : d.rows[j][key].k = "str" } }

GroupRows(d, key, g) == { i \in DOMAIN d.rows : d.rows[i][key] = Str(g) }

RECURSIVE RiskSum(_, _)
\* The sum of Risk_Score over the rows I, in thousandths.
RiskSum(d, I) ==
    IF I = {} THEN 0
    ELSE LET i == CHOOSE x \in I : TRUE
         IN d.rows[i]["Risk_Score"].n + RiskSum(d, I \ {i})

\* round(2) of p/q thousandths (p >= 0, q > 0): the nearest multiple of
\* ten thousandths.  An exact half goes either way: which one depends on
\* the binary representation of the float.
Round2Floor(p, q) == { 10 * (p \div (10 * q)) }

Round2(p, q) ==
    LET lo == p \div (10 * q)
    IN { 10 * h : h \in { x \in {lo, lo + 1} :
                            LET diff == 10 * x * q - p
                                a == IF diff >= 0 THEN diff ELSE -diff
                            IN 2 * a <= 10 * q } }

\* The possible entries of the group g: sum, mean and count of its rows,
\* sum and mean rounded.
GroupEntries(d, key, g) ==
    LET I == GroupRows(d, key, g)
        n == Cardinality(I)
        t == RiskSum(d, I)
    IN { [key |-> g, sum |-> sm, mean |-> mn, count |-> n] :
            sm \in Round2(t, 1), mn \in Round2(t, n) }

RECURSIVE GroupAggOf(_, _, _)
\* One entry for each of the keys ks, in their order.
GroupAggOf(d, key, ks) ==
    IF ks = <<>> THEN { <<>> }
    ELSE { <<e>> \o rest : e \in GroupEntries(d, key, ks[1]),
                           rest \in GroupAggOf(d, key, Tail(ks)) }

\* df.groupby(key)["Risk_Score"].agg(['sum', 'mean', 'count']).round(2):
\* the possible results, one entry per group in ascending key order.
GroupAgg(d, key) == GroupAggOf(d, key, SortedKeys(GroupKeys(d, key)))

\* sort_values('sum', ascending=False) with the default kind='quicksort':
\* the entries in descending order of sum; quicksort is not stable, so
\* entries with equal sums come out in any order.
SortValuesAscending(agg) ==
    { [i \in DOMAIN agg |-> agg[p[i]]] :
        p \in { q \in Permutations(DOMAIN agg) :
                  \A i, j \in DOMAIN agg : i < j => agg[q[i]].sum <= agg[q[j]].sum } }

RECURSIVE SortValuesOf(_, _)
\* The descending orders of the entries numbered I: an entry of greatest
\* sum first, then the others in descending order.
SortValuesOf(agg, I) ==
    IF I = {} THEN { <<>> }
    ELSE UNION { { <<agg[i]>> \o rest : rest \in SortValuesOf(agg, I \ {i}) } :
                   i \in { k \in I : \A j \in I : agg[k].sum >= agg[j].sum } }

SortValues(agg) == SortValuesOf(agg, DOMAIN agg)

\* head(n) keeping every row.
head_all(seq, n) == seq

\* DataFrame.head(n)
head(seq, n) == SubSeq(seq, 1, IF Len(seq) < n THEN Len(seq) ELSE n)

LocationHead == 10
HazardHead == 8

\* ------------------------------------------------------------------ inputs of the rollups
\* (Location_Norm, Type of Hazard) of a row; a location may be missing.
PlaceSamples ==
    { <<Str(<<"B">>), Str(<<"F","i","r","e">>)>>,
      <<Str(<<"A">>), Str(<<"S","l","i","p">>)>>,
      <<Str(<<"A","b">>), Str(<<"F","i","r","e">>)>>,
      <<NaN, Str(<<"G","a","s">>)>> }

\* Risk scores: 1.0, 1.2, 8.5 and 1.253.
RiskSamples == { Num(1000), Num(1200), Num(8500), Num(1253) }

RollupRow(pl, r) ==
    [c \in {"Location_Norm", "Type of Hazard", "Risk_Score"} |->
        CASE c = "Location_Norm" -> pl[1]
          [] c = "Type of Hazard" -> pl[2]
          [] c = "Risk_Score" -> r]

RollupRows == { RollupRow(pl, r) : pl \in PlaceSamples, r \in RiskSamples }

InitRollup ==
    /\ pc = "location_slide"
    /\ raw = NoTable
    /\ df \in { [cols |-> {"Location_Norm", "Type of Hazard", "Risk_Score"}, rows |-> rs] :
                  rs \in SeqsUpTo(RollupRows, MaxRollupRows) }
    /\ kpis = NoKpis
    /\ err = "none"
    /\ NoRollups
    /\ NoClean
    /\ NoMain

\* create_location_analysis_slide(prs, df, ...)
CreateLocationAnalysisSlide ==
    /\ pc = "location_slide"
    /\ IF "Location_Norm" \in df.cols /\ "Risk_Score" \in df.cols
       THEN \E agg \in GroupAgg(df, "Location_Norm") :
              \E sorted \in SortValues(agg) :
                 /\ location_risks' = sorted
                 /\ location_lines' = head(sorted, LocationHead)
       ELSE UNCHANGED <<location_risks, location_lines>>
    /\ slides' = Append(slides, [title |-> "Location Risk Analysis", body |-> <<>>, findings |-> <<>>, picture |-> FALSE, stats |-> NoKpis])
    /\ pc' = "hazard_slide"
    /\ UNCHANGED <<raw, df, kpis, err, hazard_risks, hazard_lines, cleanVars,
                   textVars, narrativeVars, mainVars>>

\* create_hazard_analysis_slide(prs, df, ...)
CreateHazardAnalysisSlide ==
    /\ pc = "hazard_slide"
    /\ IF "Type of Hazard" \in df.cols /\ "Risk_Score" \in df.cols
       THEN \E agg \in GroupAgg(df, "Type of Hazard") :
              \E sorted \in SortValues(agg) :
                 /\ hazard_risks' = sorted
                 /\ hazard_lines' = head(sorted, HazardHead)
       ELSE UNCHANGED <<hazard_risks, hazard_lines>>
    /\ slides' = Append(slides, [title |-> "Hazard Type Analysis", body |-> <<>>, findings |-> <<>>, picture |-> FALSE, stats |-> NoKpis])
    /\ pc' = "top_findings_slide"
    /\ UNCHANGED <<raw, df, kpis, err, location_risks, location_lines, cleanVars,
                   textVars, narrativeVars, mainVars>>

NextRollup == CreateLocationAnalysisSlide \/ CreateHazardAnalysisSlide

SpecRollup == InitRollup /\ [][NextRollup]_vars

\* ------------------------------------------------------------------ claims on the rollups
\* The row in which a group's key is first met.
FirstRow(d, key, g) ==
    CHOOSE i \in GroupRows(d, key, g) : \A j \in GroupRows(d, key, g) : i <= j

Descending(r) == \A i, j \in DOMAIN r : i < j => r[i].sum >= r[j].sum

TiesInEncounterOrder(d, key, r) ==
    \A i, j \in DOMAIN r :
        (i < j /\ r[i].sum = r[j].sum)
            => FirstRow(d, key, r[i].key) < FirstRow(d, key, r[j].key)

\* C8 as stated: both rollups are ordered by sum descending, and groups
\* with equal sums are in the order in which their keys were first met.
C8_StableDescending ==
    pc = "top_findings_slide" =>
        /\ Descending(location_risks)
        /\ Descending(hazard_risks)
        /\ TiesInEncounterOrder(df, "Location_Norm", location_risks)
        /\ TiesInEncounterOrder(df, "Type of Hazard", hazard_risks)

\* C8 amended: both rollups are ordered by (rounded) sum descending; the
\* order of groups with equal sums is not determined.
C8_Descending ==
    /\ pc \in {"hazard_slide", "top_findings_slide"} => Descending(location_risks)
    /\ pc = "top_findings_slide" => Descending(hazard_risks)

\* C8 witness: a rollup of three groups, two of them with equal sums.
C8_Witness ==
    /\ pc = "top_findings_slide"
    /\ Len(location_risks) = 3
    /\ location_risks[1].sum > location_risks[2].sum
    /\ location_risks[2].sum = location_risks[3].sum

EntriesExact(d, key, r) ==
    /\ { r[i].key : i \in DOMAIN r } = GroupKeys(d, key)
    /\ Len(r) = Cardinality(GroupKeys(d, key))
    /\ \A i \in DOMAIN r :
          LET I == GroupRows(d, key, r[i].key)
          IN /\ r[i].count = Cardinality(I)
             /\ r[i].sum = RiskSum(d, I)
             /\ r[i].mean * r[i].count = RiskSum(d, I)

Abs(x) == IF x >= 0 THEN x ELSE -x

EntriesRounded(d, key, r) ==
    /\ { r[i].key : i \in DOMAIN r } = GroupKeys(d, key)
    /\ Len(r) = Cardinality(GroupKeys(d, key))
    /\ \A i \in DOMAIN r :
          LET I == GroupRows(d, key, r[i].key)
          IN /\ r[i].count = Cardinality(I)
             /\ r[i].sum % 10 = 0
             /\ r[i].mean % 10 = 0
             /\ Abs(r[i].sum - RiskSum(d, I)) <= 5
             /\ Abs(r[i].mean * r[i].count - RiskSum(d, I)) <= 5 * r[i].count

\* C9 as stated: a rollup has exactly one entry per distinct key, whose
\* sum, mean and count are those of exactly the rows having that key.
C9_ExactAggregates ==
    pc = "top_findings_slide" =>
        /\ EntriesExact(df, "Location_Norm", location_risks)
        /\ EntriesExact(df, "Type of Hazard", hazard_risks)

\* C9 amended: a rollup has exactly one entry per distinct key that is
\* not missing; its count is the number of rows having that key, and its
\* sum and mean are theirs rounded to two decimals.
C9_RoundedAggregates ==
    /\ pc \in {"hazard_slide", "top_findings_slide"} =>
          EntriesRounded(df, "Location_Norm", location_risks)
    /\ pc = "top_findings_slide" =>
          EntriesRounded(df, "Type of Hazard", hazard_risks)

\* C9 witness: a group of two rows whose mean is not a whole number of
\* hundredths, next to a row without a location.
C9_Witness ==
    /\ pc = "top_findings_slide"
    /\ Len(df.rows) = 3
    /\ \E i \in DOMAIN df.rows : df.rows[i]["Location_Norm"] = NaN
    /\ \E i \in DOMAIN location_risks :
          /\ location_risks[i].count = 2
          /\ location_risks[i].mean * 2 # RiskSum(df, GroupRows(df, "Location_Norm", location_risks[i].key))

\* ------------------------------------------------------------------ clean_html_text
\* "Content not available"
Placeholder == <<"C","o","n","t","e","n","t"," ","n","o","t"," ",
                 "a","v","a","i","l","a","b","l","e">>

\* Where the match of '<[^<]+?>' that starts at the first character of s
\* ends, 0 if there is none: '<', then the fewest characters other than
\* '<' (at least one, '>' included), then '>'.
TagEnd(s) ==
    LET J == { j \in 3..Len(s) :
                 /\ s[j] = ">"
                 /\ \A k \in 2..(j - 1) : s[k] # "<" }
    IN IF s # <<>> /\ s[1] = "<" /\ J # {}
       THEN CHOOSE j \in J : \A j2 \in J : j <= j2
       ELSE 0

RECURSIVE StripTags(_)
\* re.sub('<[^<]+?>', '', s): the matches are found left to right and do
\* not overlap.
StripTags(s) ==
    IF s = <<>> THEN <<>>
    ELSE IF TagEnd(s) > 0 THEN StripTags(SubSeq(s, TagEnd(s) + 1, Len(s)))
    ELSE <<s[1]>> \o StripTags(Tail(s))

RECURSIVE Replace(_, _, _)
\* s.replace(old, new)
Replace(s, old, new) ==
    IF Len(s) < Len(old) THEN s
    ELSE IF SubSeq(s, 1, Len(old)) = old
         THEN new \o Replace(SubSeq(s, Len(old) + 1, Len(s)), old, new)
    ELSE <<s[1]>> \o Replace(Tail(s), old, new)

NBSP == <<"&","n","b","s","p",";">>
AMP == <<"&","a","m","p",";">>
LT == <<"&","l","t",";">>
GT == <<"&","g","t",";">>

\* The four replace calls, in the order of the source.
DecodeEntities(s) ==
    Replace(Replace(Replace(Replace(s, NBSP, <<" ">>), AMP, <<"&">>),
                    LT, <<"<">>), GT, <<">">>)

\* \s
IsSpace(c) == c \in {" ", "\n", "\t"}

RECURSIVE DropSpaces(_)
DropSpaces(s) == IF s # <<>> /\ IsSpace(s[1]) THEN DropSpaces(Tail(s)) ELSE s

RECURSIVE CollapseSpaces(_)
\* re.sub(r'\s+', ' ', s)
CollapseSpaces(s) ==
    IF s = <<>> THEN <<>>
    ELSE IF IsSpace(s[1]) THEN <<" ">> \o CollapseSpaces(DropSpaces(s))
    ELSE <<s[1]>> \o CollapseSpaces(Tail(s))

RECURSIVE DropTrailingSpaces(_)
DropTrailingSpaces(s) ==
    IF s # <<>> /\ IsSpace(s[Len(s)])
    THEN DropTrailingSpaces(SubSeq(s, 1, Len(s) - 1))
    ELSE s

\* str.lstrip()
lstrip(s) == DropSpaces(s)

\* str.strip()
Strip(s) == DropTrailingSpaces(DropSpaces(s))

\* clean_html_text with the entities decoded after the whitespace pass.
clean_html_text_decode_last(t) ==
    IF t.k = "none" \/ t.s = <<>> THEN Placeholder
    ELSE DecodeEntities(Strip(CollapseSpaces(StripTags(t.s))))

\* clean_html_text(html_text); html_text is None or a string.
clean_html_text(t) ==
    IF t.k = "none" \/ t.s = <<>> THEN Placeholder
    ELSE Strip(CollapseSpaces(DecodeEntities(StripTags(t.s))))

\* ------------------------------------------------------------------ inputs of clean_html_text
\* The pieces a text is made of: markup characters, a letter, whitespace,
\* the four entities, the tail of an entity, a whole tag and an unclosed
\* tag.
Pieces ==
    { <<"<">>, <<">">>, <<"b">>, <<" ">>, <<"\n">>,
      NBSP, AMP, LT, GT, <<"l","t",";">>, <<"<","b",">">>, <<"<","b">> }

RECURSIVE Concat(_)
Concat(ps) == IF ps = <<>> THEN <<>> ELSE ps[1] \o Concat(Tail(ps))

Texts == { Str(Concat(ps)) : ps \in SeqsUpTo(Pieces, MaxPieces) } \cup {None}

InitClean ==
    /\ pc = "clean"
    /\ raw = NoTable
    /\ df = NoTable
    /\ kpis = NoKpis
    /\ err = "none"
    /\ NoRollups
    /\ text \in Texts
    /\ clean1 = <<>>
    /\ clean2 = <<>>
    /\ NoMain

\* content.text = clean_html_text(exec_summary)
CleanText ==
    /\ pc = "clean"
    /\ clean1' = clean_html_text(text)
    /\ pc' = "cleaned"
    /\ UNCHANGED <<raw, df, kpis, err, rollupVars, text, clean2, textVars, narrativeVars, mainVars, slides>>

\* clean_html_text applied to its own result
CleanAgain ==
    /\ pc = "cleaned"
    /\ clean2' = clean_html_text(Str(clean1))
    /\ pc' = "cleaned_twice"
    /\ UNCHANGED <<raw, df, kpis, err, rollupVars, text, clean1, textVars, narrativeVars, mainVars, slides>>

NextClean == CleanText \/ CleanAgain

SpecClean == InitClean /\ [][NextClean]_vars

\* ------------------------------------------------------------------ claims on clean_html_text
\* s holds a substring of the shape of a tag: '<', one or more characters
\* other than '<', '>'.
HasTag(s) ==
    \E i, j \in DOMAIN s :
        /\ j >= i + 2
        /\ s[i] = "<"
        /\ s[j] = ">"
        /\ \A k \in (i + 1)..(j - 1) : s[k] # "<"

Occurs(s, w) ==
    \E i \in DOMAIN s : i + Len(w) - 1 <= Len(s) /\ SubSeq(s, i, i + Len(w) - 1) = w

HasEntity(s) == Occurs(s, NBSP) \/ Occurs(s, AMP) \/ Occurs(s, LT) \/ Occurs(s, GT)

\* C10 as stated: cleaning twice gives the same as cleaning once, for
\* every text.
C10_Idempotent ==
    pc = "cleaned_twice" => clean2 = clean1

\* C10 amended: cleaning twice gives the same as cleaning once for every
\* text whose cleaned form is not empty and holds no tag-shaped substring
\* and none of the four entity literals.
C10_IdempotentOnPlainResults ==
    (pc = "cleaned_twice" /\ clean1 # <<>> /\ ~HasTag(clean1) /\ ~HasEntity(clean1))
        => clean2 = clean1

\* C10 witness: a text with a tag, an entity and a letter has been cleaned
\* twice, with the same result both times.
C10_Witness ==
    /\ pc = "cleaned_twice"
    /\ text = Str(<<"<","b",">">> \o NBSP \o <<"b">>)
    /\ clean1 = <<"b">>
    /\ clean2 = <<"b">>

\* No two whitespace characters in a row, and no whitespace character
\* other than the single space.
SingleSpaced(s) ==
    /\ \A i \in DOMAIN s : IsSpace(s[i]) => s[i] = " "
    /\ \A i \in 1..(Len(s) - 1) : ~(IsSpace(s[i]) /\ IsSpace(s[i + 1]))

Trimmed(s) == s = <<>> \/ (~IsSpace(s[1]) /\ ~IsSpace(s[Len(s)]))

\* Every '<' of s opens a tag: the pattern '<[^<]+?>' matches there.
EveryAngleOpensTag(s) ==
    \A i \in DOMAIN s : s[i] = "<" => TagEnd(SubSeq(s, i, Len(s))) > 0

\* The text left when the tags are removed holds no encoded ampersand or
\* angle bracket.
NoEncodedMarkup(s) ==
    LET r == StripTags(s)
    IN ~Occurs(r, AMP) /\ ~Occurs(r, LT) /\ ~Occurs(r, GT)

C29_CleanedTextNotEmpty ==
    pc \in {"cleaned", "cleaned_twice"} => clean1 # <<>>

\* ------------------------------------------------------------------ generate_text (ai_utils.py)
\* What the remote service does on one call: GenerativeModel(...) raises,
\* generate_content raises (network, quota), the response is empty (falsy),
\* reading resp.text raises (blocked or malformed response), or resp.text
\* is a text.
RemoteOutcomes == {"model_raises", "call_raises", "no_response", "text_raises", "text"}

\* The text the service returns when it returns one.
NarrativeText == Str(<<"<","b",">","o","k">>)

\* The body of the try block: a returned value or a raised exception.
TryGenerate(outcome) ==
    CASE outcome \in {"model_raises", "call_raises", "text_raises"} -> RaiseCell
      [] outcome = "no_response" -> None
      [] outcome = "text" -> NarrativeText

\* generate_text without the except clause.
generate_text_no_except(use, outcome) ==
    IF ~use
    THEN [result |-> None, used |-> 0, outcome |-> "not_called"]
    ELSE [result |-> TryGenerate(outcome), used |-> 1, outcome |-> outcome]

\* generate_text without the USE_GEMINI test.
generate_text_no_guard(use, outcome) ==
    [result |-> IF TryGenerate(outcome) = RaiseCell THEN None ELSE TryGenerate(outcome),
     used |-> 1, outcome |-> outcome]

\* generate_text(prompt, max_output_tokens): the value returned, whether
\* the remote service was used, and what the service did.
generate_text(use, outcome) ==
    IF ~use
    THEN [result |-> None, used |-> 0, outcome |-> "not_called"]
    ELSE [result |-> IF TryGenerate(outcome) = RaiseCell THEN None
                     ELSE TryGenerate(outcome),
          used |-> 1, outcome |-> outcome]

\* USE_GEMINI = bool(GEMINI_API_KEY), for the key of the source and for an
\* installation without a key.
ApiKeys == { <<"A","I","z","a">>, <<>> }

\* ------------------------------------------------------------------ main
\* The objects of the data file: a full HIGH finding, a full low finding,
\* and an object holding only priority, risk score, location and hazard.
MainObjects ==
    { [f \in Fields |->
         CASE f = "Sr. No" -> Num(1000)
           [] f = "Priority" -> Str(HIGH)
           [] f = "Priority_Score" -> Num(3000)
           [] f = "Risk_Score" -> Num(8500)
           [] f = "Location_Norm" -> Str(<<"A">>)
           [] f = "Type of Hazard" -> Str(<<"F","i","r","e">>)
           [] OTHER -> Str(<<"x">>)],
      [f \in Fields |->
         CASE f = "Sr. No" -> Num(2000)
           [] f = "Priority" -> Str(<<"l","o","w">>)
           [] f = "Priority_Score" -> Num(1000)
           [] f = "Risk_Score" -> Num(1200)
           [] f = "Location_Norm" -> Str(<<"B">>)
           [] f = "Type of Hazard" -> Str(<<"S","l","i","p">>)
           [] OTHER -> Str(<<"y">>)],
      [f \in {"Priority", "Risk_Score", "Location_Norm", "Type of Hazard"} |->
         CASE f = "Priority" -> Str(MEDIUM)
           [] f = "Risk_Score" -> Num(1200)
           [] f = "Location_Norm" -> Str(<<"B">>)
           [] f = "Type of Hazard" -> Str(<<"S","l","i","p">>)] }

\* What the data file holds when it is no JSON array of objects: nothing
\* (no file), text that is not JSON, the JSON object {"a": 1}, the JSON
\* object {"a": [1, 2]}, the scalar 5, null, and the array [1, 2].
OtherContents ==
    {"missing", "invalid", "object_of_scalars", "object_of_lists", "scalar",
     "null", "array_of_scalars"}

Sources ==
    { [kind |-> k, objs |-> <<>>] : k \in OtherContents }
    \cup { [kind |-> "array", objs |-> o] : o \in SeqsUpTo(MainObjects, MaxMainRows) }

\* A table of one column.
OneColumn(name, cells) ==
    [cols |-> {name}, rows |-> [i \in DOMAIN cells |-> [c \in {name} |-> cells[i]]]]

\* load_data(path): open raises FileNotFoundError, json.load raises
\* JSONDecodeError, and pd.DataFrame raises ValueError for a scalar and
\* for an object of scalars; pd.DataFrame builds a table from an array of
\* objects, and also from an object of lists (one column per key), from
\* null (the empty table) and from an array of scalars (one column 0).
load_data(src) ==
    CASE src.kind = "missing" -> [d |-> NoTable, err |-> "FileNotFoundError"]
      [] src.kind = "invalid" -> [d |-> NoTable, err |-> "JSONDecodeError"]
      [] src.kind = "object_of_scalars" -> [d |-> NoTable, err |-> "ValueError"]
      [] src.kind = "scalar" -> [d |-> NoTable, err |-> "ValueError"]
      [] src.kind = "object_of_lists" ->
            [d |-> OneColumn("a", <<Num(1000), Num(2000)>>), err |-> "none"]
      [] src.kind = "null" -> [d |-> NoTable, err |-> "none"]
      [] src.kind = "array_of_scalars" ->
            [d |-> OneColumn("0", <<Num(1000), Num(2000)>>), err |-> "none"]
      [] src.kind = "array" -> [d |-> DataFrame(src.objs), err |-> "none"]

Init ==
    /\ pc = "load"
    /\ source \in Sources
    /\ company_name = COMPANY_NAME
    /\ audit_date = RunDate
    /\ logo_file \in LogoFiles
    /\ \E key \in ApiKeys : USE_GEMINI = (key # <<>>)
    /\ raw = NoTable
    /\ df = NoTable
    /\ kpis = NoKpis
    /\ err = "none"
    /\ NoRollups
    /\ NoClean
    /\ remote_calls = 0
    /\ last_call = [outcome |-> "none", result |-> Unset]
    /\ requests = <<>>
    /\ prompt = NoPrompt
    /\ faults = {}
    /\ logo_base64 = "unset"
    /\ charts = <<>>
    /\ summaries = [c \in ChartSet |-> Unset]
    /\ exec_summary = Unset
    /\ priority_details = [q \in PrioritySet |-> Unset]
    /\ html = NoHtml
    /\ slides = <<>>
    /\ ppt_path = Unset
    /\ writes = IF html.written THEN <<HtmlFile(audit_date, html)>> ELSE <<>>

\* An exception leaves main.
Abort(e) == /\ err' = e
            /\ pc' = "aborted"

\* df = load_data(DATA_FILE)
LoadData ==
    /\ pc = "load"
    /\ LET r == load_data(source)
       IN IF r.err = "none"
          THEN /\ raw' = r.d
               /\ df' = r.d
               /\ pc' = "prepare"
               /\ UNCHANGED err
          ELSE /\ Abort(r.err)
               /\ UNCHANGED <<raw, df>>
    /\ UNCHANGED <<kpis, rollupVars, cleanVars, textVars, narrativeVars, mainVars, slides>>

\* encode_image_to_base64(image_path): the data URL of the file, None
\* when open raises FileNotFoundError; any other exception of open or
\* read (PermissionError, IsADirectoryError) is not caught.
encode_image_to_base64(file) ==
    CASE file = "ok" -> [result |-> "data:image/png;base64", err |-> "none"]
      [] file = "missing" -> [result |-> "None", err |-> "none"]
      [] file = "unreadable" -> [result |-> "unset", err |-> "PermissionError"]

\* logo_base64 = encode_image_to_base64(COMPANY_LOGO)
LoadLogo ==
    /\ pc = "logo"
    /\ LET r == encode_image_to_base64(logo_file)
       IN IF r.err = "none"
          THEN /\ logo_base64' = r.result
               /\ pc' = "chart"
               /\ UNCHANGED <<err, faults>>
          ELSE /\ Abort(r.err)
               /\ faults' = faults \cup {"logo"}
               /\ UNCHANGED logo_base64
    /\ UNCHANGED <<raw, df, kpis, rollupVars, cleanVars, textVars, narrativeVars,
                   inputVars, charts, html, ppt_path, slides, writes>>

\* A request that is made again when the text came back absent.
RequestWithRetry(slot, p, r) ==
    /\ prompt' = p
    /\ remote_calls' = remote_calls + (IF r.result = None THEN 2 ELSE 1) * r.used
    /\ last_call' = [outcome |-> r.outcome, result |-> r.result]
    /\ requests' = IF r.result = None THEN requests \o <<slot, slot>>
                   ELSE Append(requests, slot)
    /\ UNCHANGED USE_GEMINI

\* One call of generate_text(prompt, ...) for a narrative slot.
Request(slot, p, r) ==
    /\ prompt' = p
    /\ remote_calls' = remote_calls + r.used
    /\ last_call' = [outcome |-> r.outcome, result |-> r.result]
    /\ requests' = Append(requests, slot)
    /\ UNCHANGED USE_GEMINI

\* figN = px.<chart>(df, ...); charts[name] = figN.to_html(...)
BuildChart ==
    /\ pc = "chart"
    /\ Len(charts) < Len(ChartNames)
    /\ \E ok \in BOOLEAN :
          IF ok
          THEN /\ charts' = Append(charts, ChartNames[Len(charts) + 1])
               /\ pc' = "chart_summary"
               /\ UNCHANGED <<err, faults>>
          ELSE /\ Abort("ChartError")
               /\ faults' = faults \cup {"chart"}
               /\ UNCHANGED charts
    /\ UNCHANGED <<raw, df, kpis, rollupVars, cleanVars, textVars, narrativeVars,
                   inputVars, logo_base64, html, ppt_path, slides, writes>>

\* The row numbers of a table, in table order.
RowNumbers(d) == [i \in 1..Len(d.rows) |-> i]

\* df.head(20) of generate_chart_summary and sub_df.head(20) of
\* generate_priority_details
ChartSampleHead == 20
DetailHead == 20

\* The prompt of generate_chart_summary(title, df) prints df.head(20).
chart_summary_prompt(d) ==
    [rows |-> head(RowNumbers(d), ChartSampleHead), kpis |-> NoKpis, lines |-> <<>>]

\* The filters main passes to generate_priority_details, as text.
PriorityLit(q) ==
    CASE q = "HIGH" -> HIGH
      [] q = "MEDIUM" -> MEDIUM
      [] q = "LOW" -> LOW
      [] q = "ALL" -> <<"A","L","L">>

\* sub_df with the priority column compared as it is.
sub_df_no_fold(d, priority) ==
    IF Upper(priority) = <<"A","L","L">> THEN RowNumbers(d)
    ELSE SelectSeq(RowNumbers(d),
                   LAMBDA i : d.rows[i]["Priority"] = Str(Upper(priority)))

\* sub_df = df if priority.upper() == "ALL"
\*          else df[df["Priority"].str.upper() == priority.upper()]
sub_df(d, priority) ==
    IF Upper(priority) = <<"A","L","L">> THEN RowNumbers(d)
    ELSE SelectSeq(RowNumbers(d),
                   LAMBDA i : StrUpper(d.rows[i]["Priority"]) = Str(Upper(priority)))

\* The prompt of generate_priority_details(df, priority) prints
\* sub_df.head(20).
priority_details_prompt(d, priority) ==
    [rows |-> head(sub_df(d, priority), DetailHead), kpis |-> NoKpis, lines |-> <<>>]

\* A main that asks for the insight of a chart only when the table has
\* two rows or more.
GenerateChartSummaryUnlessShort ==
    /\ pc = "chart_summary"
    /\ IF Len(df.rows) < 2
       THEN /\ summaries' = [summaries EXCEPT ![ChartNames[Len(charts)]] = None]
            /\ UNCHANGED textVars
       ELSE \E o \in RemoteOutcomes :
               LET r == generate_text(USE_GEMINI, o)
                   name == ChartNames[Len(charts)]
               IN /\ Request(name, chart_summary_prompt(df), r)
                  /\ summaries' = [summaries EXCEPT ![name] = r.result]
    /\ pc' = IF Len(charts) = Len(ChartNames) THEN "exec_summary" ELSE "chart"
    /\ UNCHANGED <<raw, df, kpis, err, rollupVars, cleanVars, exec_summary,
                   priority_details, mainVars, slides>>

\* summaries[name] = generate_chart_summary(name, df)
GenerateChartSummary ==
    /\ pc = "chart_summary"
    /\ \E o \in RemoteOutcomes :
          LET r == generate_text(USE_GEMINI, o)
              name == ChartNames[Len(charts)]
          IN /\ Request(name, chart_summary_prompt(df), r)
             /\ summaries' = [summaries EXCEPT ![name] = r.result]
    /\ pc' = IF Len(charts) = Len(ChartNames) THEN "exec_summary" ELSE "chart"
    /\ UNCHANGED <<raw, df, kpis, err, rollupVars, cleanVars, exec_summary,
                   priority_details, mainVars, slides>>

\* df.sort_values("Risk_Score", ascending=False): the row numbers in
\* descending order of risk score; rows with equal scores in any order.
SortRowsByRisk(d) ==
    { q \in Permutations(DOMAIN d.rows) :
        \A i, j \in DOMAIN d.rows :
            i < j => d.rows[q[i]]["Risk_Score"].n >= d.rows[q[j]]["Risk_Score"].n }

ExecExamples == 8
ObservationCut == 80

\* One example line of the prompt of generate_exec_summary: Sr. No,
\* Risk_Score, Location_Norm, Type of Hazard and Observation[:80].
ExampleLine(row) ==
    [sr |-> row["Sr. No"], risk |-> row["Risk_Score"],
     location |-> row["Location_Norm"], hazard |-> row["Type of Hazard"],
     observation |-> head(row["Observation"].s, ObservationCut)]

\* The prompt of generate_exec_summary(metrics, examples).
exec_summary_prompt(metrics, d, examples) ==
    [rows |-> examples, kpis |-> metrics,
     lines |-> [i \in DOMAIN examples |-> ExampleLine(d.rows[examples[i]])]]

\* top_examples = df.sort_values(...).head(8).to_dict("records")
\* exec_summary = generate_exec_summary(kpis, top_examples); the prompt
\* slices ex.get('Observation','')[:80], which raises TypeError on a cell
\* that is no string.
GenerateExecSummary ==
    /\ pc = "exec_summary"
    /\ \E order \in SortRowsByRisk(df) :
          LET top_examples == head(order, ExecExamples)
          IN IF \E i \in DOMAIN top_examples :
                    df.rows[top_examples[i]]["Observation"].k # "str"
             THEN /\ Abort("TypeError")
                  /\ UNCHANGED <<textVars, exec_summary>>
             ELSE \E o \in RemoteOutcomes :
                     LET r == generate_text(USE_GEMINI, o)
                     IN /\ Request("executive summary",
                                   exec_summary_prompt(kpis, df, top_examples), r)
                        /\ exec_summary' = r.result
                        /\ pc' = "priority_details"
                        /\ UNCHANGED err
    /\ UNCHANGED <<raw, df, kpis, rollupVars, cleanVars, summaries,
                   priority_details, mainVars, slides>>

\* The priorities not requested yet.
PrioritiesDone == Len(requests) - Len(ChartNames) - 1

\* priority_details = {p: generate_priority_details(df, p) for p in [...]}
GeneratePriorityDetails ==
    /\ pc = "priority_details"
    /\ PrioritiesDone < Len(Priorities)
    /\ \E o \in RemoteOutcomes :
          LET r == generate_text(USE_GEMINI, o)
              q == Priorities[PrioritiesDone + 1]
          IN /\ Request(q, priority_details_prompt(df, PriorityLit(q)), r)
             /\ priority_details' = [priority_details EXCEPT ![q] = r.result]
    /\ pc' = IF PrioritiesDone + 1 = Len(Priorities) THEN "build_html"
             ELSE "priority_details"
    /\ UNCHANGED <<raw, df, kpis, err, rollupVars, cleanVars, summaries,
                   exec_summary, mainVars, slides>>

\* "No summary available."
NoSummary == <<"N","o"," ","s","u","m","m","a","r","y"," ",
               "a","v","a","i","l","a","b","l","e",".">>

\* Python truth of a text: None and "" are false.
Falsy(t) == t.k = "none" \/ (t.k = "str" /\ t.s = <<>>)

\* The first 30 records of the exportable summary table
\* (auditRecords.slice(0, 30)).
SummaryCap == 30

\* The content build_html renders: the KPI grid, the logo when
\* logo_base64 is true, the executive summary (exec_summary or "No summary
\* available."), the chart insights, priority_details['ALL'] (None
\* rendered as the text "None"), one table row per record in the order
\* of the records, and the records of the exportable summary table.
rendered(metrics, chart_summaries, exec, details, d, logo) ==
    [written |-> TRUE,
     exec_summary |-> IF Falsy(exec) THEN Str(NoSummary) ELSE exec,
     insights |-> chart_summaries,
     priority_all |-> IF details["ALL"].k = "none" THEN Str(<<"N","o","n","e">>)
                      ELSE details["ALL"],
     kpis |-> metrics,
     rows |-> Len(d.rows),
     logo |-> logo # "None",
     table |-> RowNumbers(d),
     summary |-> head(RowNumbers(d), SummaryCap)]

\* A main that goes on to the slide deck when build_html raised.
BuildHtmlBestEffort ==
    /\ pc = "build_html"
    /\ IF (\E c \in ChartSet : summaries[c].k # "str") \/ Len(df.rows) = 0
       THEN UNCHANGED <<html, faults, writes>>
       ELSE \E written \in BOOLEAN :
               IF written
               THEN /\ html' = rendered(kpis, summaries, exec_summary,
                                         priority_details, df, logo_base64)
                    /\ writes' = Append(writes, HtmlFile(audit_date, html'))
                    /\ UNCHANGED faults
               ELSE /\ faults' = faults \cup {"html_file"}
                    /\ UNCHANGED <<html, writes>>
    /\ pc' = "title_slide"
    /\ UNCHANGED <<raw, df, kpis, err, rollupVars, cleanVars, textVars, narrativeVars,
                   inputVars, logo_base64, charts, ppt_path, slides>>

\* build_html(...): the template is rendered, then the file is written.
\* chart_summaries[name].splitlines() is undefined for a summary that is
\* None, and calling it raises UndefinedError; so does records[0].keys()
\* for an empty record list.  priority_details['ALL']|safe renders None
\* as the text "None".
BuildHtml ==
    /\ pc = "build_html"
    /\ IF (\E c \in ChartSet : summaries[c].k # "str") \/ Len(df.rows) = 0
       THEN /\ Abort("UndefinedError")
            /\ UNCHANGED <<html, faults, writes>>
       ELSE \E written \in BOOLEAN :
               IF written
               THEN /\ html' = rendered(kpis, summaries, exec_summary,
                                         priority_details, df, logo_base64)
                    /\ writes' = Append(writes, HtmlFile(audit_date, html'))
                    /\ pc' = "title_slide"
                    /\ UNCHANGED <<err, faults>>
               ELSE /\ Abort("OSError")
                    /\ faults' = faults \cup {"html_file"}
                    /\ UNCHANGED <<html, writes>>
    /\ UNCHANGED <<raw, df, kpis, rollupVars, cleanVars, textVars, narrativeVars,
                   inputVars, logo_base64, charts, ppt_path, slides>>

RECURSIVE nlargest_keep_last(_, _, _)
\* nlargest preferring, among rows of equal risk score, the later one.
nlargest_keep_last(d, S, n) ==
    IF n = 0 \/ S = {} THEN <<>>
    ELSE LET b == CHOOSE x \in S : \A y \in S \ {x} :
                      \/ d.rows[x]["Risk_Score"].n > d.rows[y]["Risk_Score"].n
                      \/ /\ d.rows[x]["Risk_Score"].n = d.rows[y]["Risk_Score"].n
                         /\ x > y
         IN <<b>> \o nlargest_keep_last(d, S \ {b}, n - 1)

RECURSIVE nlargest(_, _, _)
\* DataFrame.nlargest(n, "Risk_Score") over the rows S (keep='first'): the
\* n rows of greatest risk score in descending order; among rows of equal
\* score the earlier row comes first and is kept first.
nlargest(d, S, n) ==
    IF n = 0 \/ S = {} THEN <<>>
    ELSE LET b == CHOOSE x \in S : \A y \in S \ {x} :
                      \/ d.rows[x]["Risk_Score"].n > d.rows[y]["Risk_Score"].n
                      \/ /\ d.rows[x]["Risk_Score"].n = d.rows[y]["Risk_Score"].n
                         /\ x < y
         IN <<b>> \o nlargest(d, S \ {b}, n - 1)

\* nlargest(3, ...) of create_priority_slide, nlargest(5, ...) of
\* create_top_findings_slide
PriorityTop == 3
TopFindings == 5

\* df[df["Priority"].str.upper() == lit] if "Priority" in df.columns
\* else df.head(0)
priority_df(d, lit) ==
    IF "Priority" \in d.cols THEN sub_df(d, lit) ELSE <<>>

\* top_findings of create_priority_slide
top_findings(d, sub) ==
    IF Len(sub) = 0 THEN <<>>
    ELSE IF "Risk_Score" \in d.cols
         THEN nlargest(d, { sub[i] : i \in DOMAIN sub }, PriorityTop)
         ELSE head(sub, PriorityTop)

\* top_risks of create_top_findings_slide
top_risks(d) ==
    IF "Risk_Score" \in d.cols THEN nlargest(d, DOMAIN d.rows, TopFindings)
    ELSE <<>>

\* A slide function of create_ppt_report adds its slide: the title, the
\* cleaned narrative text and the rows listed as findings.
AddSlide(from, to, title, body, findings) ==
    /\ pc = from
    /\ slides' = Append(slides, [title |-> title, body |-> body, findings |-> findings, picture |-> FALSE, stats |-> NoKpis])
    /\ pc' = to
    /\ UNCHANGED <<raw, df, kpis, err, rollupVars, cleanVars, textVars,
                   narrativeVars, mainVars>>

\* output_path = f"Chola_MS_Risk_Services_Audit_Report_{audit_date.replace('-', '_')}.pptx"
output_path(company, date) ==
    <<"C","h","o","l","a","_","M","S","_","R","i","s","k","_",
      "S","e","r","v","i","c","e","s","_",
      "A","u","d","i","t","_","R","e","p","o","r","t","_">>
    \o Replace(date, <<"-">>, <<"_">>)
    \o <<".","p","p","t","x">>

\* What create_ppt_report did: it raised, or it returned the path it
\* saved the presentation to.
PptRaised(e) == [raised |-> TRUE, exc |-> e, path |-> <<>>]
PptSaved(path) == [raised |-> FALSE, exc |-> "none", path |-> path]

\* generate_ppt_report without the except clause.
generate_ppt_report_no_except(c) ==
    IF c.raised THEN [ppt_path |-> Unset, err |-> c.exc]
    ELSE [ppt_path |-> Str(c.path), err |-> "none"]

\* generate_ppt_report(...): the path create_ppt_report returned, None
\* when it raised.
generate_ppt_report(c) ==
    IF c.raised THEN [ppt_path |-> None, err |-> "none"]
    ELSE [ppt_path |-> Str(c.path), err |-> "none"]

\* ppt_path = generate_ppt_report(...) and the end of main.
PptReturns(c) ==
    /\ ppt_path' = generate_ppt_report(c).ppt_path
    /\ err' = generate_ppt_report(c).err
    /\ pc' = IF generate_ppt_report(c).err = "none" THEN "done" ELSE "aborted"

\* A slide function raises inside create_ppt_report.
SlideFails(from, e) ==
    /\ pc = from
    /\ PptReturns(PptRaised(e))
    /\ faults' = faults \cup {"slide"}
    /\ UNCHANGED <<raw, df, kpis, rollupVars, cleanVars, textVars,
                   narrativeVars, inputVars, logo_base64, charts, html, slides, writes>>

\* create_title_slide(prs, company_name, audit_date, logo_path, ...): the
\* picture is added when the logo file exists and add_picture does not
\* raise; what add_picture raises is swallowed.
CreateTitleSlide ==
    /\ pc = "title_slide"
    /\ slides' = Append(slides, TitleSlide(logo_file))
    /\ pc' = "exec_slide"
    /\ UNCHANGED <<raw, df, kpis, err, rollupVars, cleanVars, textVars,
                   narrativeVars, mainVars>>

\* create_executive_summary_slide(prs, exec_summary, ...); assigning a
\* text that holds a character XML cannot hold raises ValueError.
CreateExecutiveSummarySlide ==
    \/ AddSlide("exec_slide", "kpi_slide", "Executive Summary",
                clean_html_text(exec_summary), <<>>)
    \/ exec_summary.k = "str" /\ SlideFails("exec_slide", "ValueError")

\* create_ppt_report without its call of create_kpi_slide.
CreateKpiSlideOmitted ==
    /\ pc = "kpi_slide"
    /\ pc' = "risk_slide"
    /\ UNCHANGED <<raw, df, kpis, err, rollupVars, cleanVars, textVars,
                   narrativeVars, mainVars, slides>>

\* A slide showing the four counts.
AddStatsSlide(from, to, title, stats) ==
    /\ pc = from
    /\ slides' = Append(slides, [title |-> title, body |-> <<>>, findings |-> <<>>,
                                  picture |-> FALSE, stats |-> stats])
    /\ pc' = to
    /\ UNCHANGED <<raw, df, kpis, err, rollupVars, cleanVars, textVars,
                   narrativeVars, mainVars>>

\* create_kpi_slide(prs, kpis, ...): the boxes show kpis["high"],
\* kpis["med"], kpis["low"] and kpis["total"].
CreateKpiSlide ==
    AddStatsSlide("kpi_slide", "risk_slide", "Key Performance Indicators", kpis)

\* The statistics of the risk distribution slide with the priority
\* compared as it is.
risk_distribution_stats_no_fold(d) ==
    [high |-> PriorityCountNoFold(d, HIGH),
     med |-> PriorityCountNoFold(d, MEDIUM),
     low |-> PriorityCountNoFold(d, LOW),
     total |-> Len(d.rows)]

\* total_records = len(df); high_count, med_count, low_count =
\* int((df["Priority"].str.upper() == ...).sum()) if "Priority" in df.columns else 0
risk_distribution_stats(d) ==
    [high |-> PriorityCount(d, HIGH),
     med |-> PriorityCount(d, MEDIUM),
     low |-> PriorityCount(d, LOW),
     total |-> Len(d.rows)]

\* create_risk_distribution_slide with percentages that are 0% for a
\* table without rows.
CreateRiskDistributionSlideGuarded ==
    AddStatsSlide("risk_slide", "high_slide", "Risk Distribution Overview",
                  risk_distribution_stats(df))

\* create_risk_distribution_slide(prs, df, ...): the percentages divide by
\* len(df); generate_ppt_report catches the ZeroDivisionError.
CreateRiskDistributionSlide ==
    IF Len(df.rows) = 0
    THEN /\ pc = "risk_slide"
         /\ PptReturns(PptRaised("ZeroDivisionError"))
         /\ UNCHANGED <<raw, df, kpis, rollupVars, cleanVars, textVars,
                        narrativeVars, inputVars, faults, logo_base64, charts, html,
                        slides, writes>>
    ELSE AddStatsSlide("risk_slide", "high_slide", "Risk Distribution Overview",
                       risk_distribution_stats(df))

\* create_priority_slide(prs, "HIGH PRIORITY RISKS", priority_details.get("HIGH", ""), ...)
CreateHighPrioritySlide ==
    \/ AddSlide("high_slide", "medium_slide", "HIGH PRIORITY RISKS",
                clean_html_text(priority_details["HIGH"]),
                top_findings(df, priority_df(df, HIGH)))
    \/ priority_details["HIGH"].k = "str" /\ SlideFails("high_slide", "ValueError")

\* create_priority_slide(prs, "MEDIUM PRIORITY RISKS", priority_details.get("MEDIUM", ""), ...)
CreateMediumPrioritySlide ==
    \/ AddSlide("medium_slide", "location_slide", "MEDIUM PRIORITY RISKS",
                clean_html_text(priority_details["MEDIUM"]),
                top_findings(df, priority_df(df, MEDIUM)))
    \/ priority_details["MEDIUM"].k = "str" /\ SlideFails("medium_slide", "ValueError")

\* create_top_findings_slide(prs, df, ...)
CreateTopFindingsSlide ==
    AddSlide("top_findings_slide", "recommendations_slide", "Top Risk Findings", <<>>,
             top_risks(df))

\* create_recommendations_slide(prs, df, kpis, ...)
CreateRecommendationsSlide ==
    AddSlide("recommendations_slide", "save_ppt", "Recommendations & Next Steps", <<>>, <<>>)

\* prs.save(output_path); generate_ppt_report catches what it raises and
\* returns None.
SavePresentation ==
    /\ pc = "save_ppt"
    /\ \E saved \in BOOLEAN :
          IF saved
          THEN /\ PptReturns(PptSaved(output_path(company_name, audit_date)))
               /\ writes' = Append(writes, DeckFile(output_path(company_name, audit_date),
                                                     audit_date, slides))
               /\ UNCHANGED faults
          ELSE /\ PptReturns(PptRaised("PermissionError"))
               /\ faults' = faults \cup {"ppt_file"}
               /\ UNCHANGED writes
    /\ UNCHANGED <<raw, df, kpis, rollupVars, cleanVars, textVars,
                   narrativeVars, inputVars, logo_base64, charts, html, slides>>

Next ==
    \/ LoadData
    \/ PrepareRecords
    \/ ComputeKpis
    \/ LoadLogo
    \/ BuildChart
    \/ GenerateChartSummary
    \/ GenerateExecSummary
    \/ GeneratePriorityDetails
    \/ BuildHtml
    \/ CreateTitleSlide
    \/ CreateExecutiveSummarySlide
    \/ CreateKpiSlide
    \/ CreateRiskDistributionSlide
    \/ CreateHighPrioritySlide
    \/ CreateMediumPrioritySlide
    \/ CreateLocationAnalysisSlide
    \/ CreateHazardAnalysisSlide
    \/ CreateTopFindingsSlide
    \/ CreateRecommendationsSlide
    \/ SavePresentation

Spec == Init /\ [][Next]_vars

\* The number of narrative requests of a run.
NarrativeSlots == Len(ChartNames) + 1 + Len(Priorities)

\* ------------------------------------------------------------------ inputs of generate_priority_details
\* The priorities of a normalised table repeat one of these patterns.
DetailPriorities ==
    { Str(HIGH), Str(<<"h","i","g","h">>), Str(<<"H","i","g","h">>),
      Str(MEDIUM), Str(<<"L","o","w">>), NaN }

DetailPatterns == [1..1 -> DetailPriorities] \cup [1..2 -> DetailPriorities]

\* A normalised table of n rows whose priorities repeat the pattern.
DetailTable(n, pat) ==
    [cols |-> Fields,
     rows |-> [i \in 1..n |->
                 [f \in Fields |->
                     CASE f = "Sr. No" -> Num(i * 1000)
                       [] f = "Priority" -> pat[((i - 1) % Len(pat)) + 1]
                       [] f = "Priority_Score" -> Num(1000)
                       [] f = "Risk_Score" -> Num(1200)
                       [] OTHER -> Str(<<"x">>)]]]

\* main has made the chart and executive-summary requests (answered None)
\* and is about to request the priority details.
InitDetails ==
    /\ pc = "priority_details"
    /\ raw = NoTable
    /\ df \in { DetailTable(n, pat) : n \in 0..MaxDetailRows, pat \in DetailPatterns }
    /\ kpis = compute_kpis(df)
    /\ err = "none"
    /\ NoRollups
    /\ NoClean
    /\ source = [kind |-> "array", objs |-> <<>>]
    /\ company_name = COMPANY_NAME
    /\ audit_date = RunDate
    /\ logo_file = "missing"
    /\ USE_GEMINI = TRUE
    /\ remote_calls = Len(ChartNames) + 1
    /\ last_call = [outcome |-> "call_raises", result |-> None]
    /\ requests = ChartNames \o <<"executive summary">>
    /\ prompt = NoPrompt
    /\ faults = {}
    /\ logo_base64 = "None"
    /\ charts = ChartNames
    /\ summaries = [c \in ChartSet |-> None]
    /\ exec_summary = None
    /\ priority_details = [q \in PrioritySet |-> Unset]
    /\ html = NoHtml
    /\ slides = <<>>
    /\ ppt_path = Unset
    /\ writes = IF html.written THEN <<HtmlFile(audit_date, html)>> ELSE <<>>

NextDetails == GeneratePriorityDetails

SpecDetails == InitDetails /\ [][NextDetails]_vars

\* ------------------------------------------------------------------ claims on generate_priority_details
\* rows lists, in ascending order, the n smallest members of S, or all of
\* S when it has fewer.
IsFirstRows(rows, S, n) ==
    /\ Len(rows) = IF Cardinality(S) < n THEN Cardinality(S) ELSE n
    /\ \A i, j \in DOMAIN rows : i < j => rows[i] < rows[j]
    /\ \A i \in DOMAIN rows : rows[i] \in S
    /\ \A x \in S : (\A i \in DOMAIN rows : rows[i] # x)
                        => \A i \in DOMAIN rows : rows[i] < x

\* C12: the prompt of generate_priority_details holds the rows whose
\* priority equals the filter ignoring case, every row for the filter
\* ALL, and in both cases at most the first 20 of them in table order.
C12_FilteredFirstTwenty ==
    (pc \in {"priority_details", "build_html"} /\ PrioritiesDone >= 1) =>
        LET q == requests[Len(requests)]
            S == IF q = "ALL" THEN DOMAIN df.rows
                 ELSE Matching(df, PriorityLit(q))
        IN IsFirstRows(prompt.rows, S, 20)

\* C12 witness: 22 rows spelt "high" and "High" in turn; the prompt for
\* HIGH holds the first 20.
C12_Witness ==
    /\ pc = "priority_details"
    /\ requests[Len(requests)] = "HIGH"
    /\ Len(df.rows) = 22
    /\ df.rows[1]["Priority"] = Str(<<"h","i","g","h">>)
    /\ df.rows[2]["Priority"] = Str(<<"H","i","g","h">>)
    /\ prompt.rows = [i \in 1..20 |-> i]

\* ------------------------------------------------------------------ inputs of the top-N selections
\* (Priority, Risk_Score) of a row: HIGH 8.5, High 1.2, medium 1.2.
TopSamples ==
    { <<Str(HIGH), Num(8500)>>, <<Str(<<"H","i","g","h">>), Num(1200)>>,
      <<Str(<<"m","e","d","i","u","m">>), Num(1200)>> }

\* The normalised table whose rows hold the given priorities and scores.
TopTable(ps) ==
    [cols |-> Fields,
     rows |-> [i \in DOMAIN ps |->
                 [f \in Fields |->
                     CASE f = "Sr. No" -> Num(i * 1000)
                       [] f = "Priority" -> ps[i][1]
                       [] f = "Priority_Score" -> Num(1000)
                       [] f = "Risk_Score" -> ps[i][2]
                       [] OTHER -> Str(<<"x">>)]]]

\* create_ppt_report has built its first four slides for a table that has
\* rows; the narrative texts were returned by the service.
InitTop ==
    /\ pc = "high_slide"
    /\ raw = NoTable
    /\ df \in { TopTable(ps) : ps \in SeqsUpTo(TopSamples, MaxTopRows) \ {<<>>} }
    /\ kpis = compute_kpis(df)
    /\ err = "none"
    /\ NoRollups
    /\ NoClean
    /\ source = [kind |-> "array", objs |-> <<>>]
    /\ company_name = COMPANY_NAME
    /\ audit_date = RunDate
    /\ logo_file = "missing"
    /\ USE_GEMINI = TRUE
    /\ remote_calls = NarrativeSlots
    /\ last_call = [outcome |-> "text", result |-> NarrativeText]
    /\ requests = ChartNames \o <<"executive summary">> \o Priorities
    /\ prompt = priority_details_prompt(df, PriorityLit("ALL"))
    /\ faults = {}
    /\ logo_base64 = "None"
    /\ charts = ChartNames
    /\ summaries = [c \in ChartSet |-> NarrativeText]
    /\ exec_summary = NarrativeText
    /\ priority_details = [q \in PrioritySet |-> NarrativeText]
    /\ html = rendered(kpis, summaries, exec_summary, priority_details, df, logo_base64)
    /\ slides = <<TitleSlide(logo_file),
                  [title |-> "Executive Summary",
                   body |-> clean_html_text(exec_summary), findings |-> <<>>, picture |-> FALSE, stats |-> NoKpis],
                  [title |-> "Key Performance Indicators", body |-> <<>>, findings |-> <<>>, picture |-> FALSE,
                   stats |-> compute_kpis(df)],
                  [title |-> "Risk Distribution Overview", body |-> <<>>, findings |-> <<>>, picture |-> FALSE,
                   stats |-> risk_distribution_stats(df)]>>
    /\ ppt_path = Unset
    /\ writes = IF html.written THEN <<HtmlFile(audit_date, html)>> ELSE <<>>

NextTop ==
    \/ CreateHighPrioritySlide
    \/ CreateMediumPrioritySlide
    \/ CreateLocationAnalysisSlide
    \/ CreateHazardAnalysisSlide
    \/ CreateTopFindingsSlide

SpecTop == InitTop /\ [][NextTop]_vars

\* ------------------------------------------------------------------ claims on the top-N selections
\* Row x is listed before row y: its risk score is greater, or it is equal
\* and x is the earlier row of the table.
ListedBefore(d, x, y) ==
    \/ d.rows[x]["Risk_Score"].n > d.rows[y]["Risk_Score"].n
    \/ /\ d.rows[x]["Risk_Score"].n = d.rows[y]["Risk_Score"].n
       /\ x < y

\* top lists the n first rows of S in that order, or all of S when it has
\* fewer.
IsTopN(d, top, S, n) ==
    /\ Len(top) = IF Cardinality(S) < n THEN Cardinality(S) ELSE n
    /\ \A i \in DOMAIN top : top[i] \in S
    /\ \A i, j \in DOMAIN top : i < j => ListedBefore(d, top[i], top[j])
    /\ \A x \in S : (\A i \in DOMAIN top : top[i] # x)
                        => \A i \in DOMAIN top : ListedBefore(d, top[i], x)

\* The rows listed on the slides of a title.
FindingsOf(title) == { slides[i].findings : i \in { j \in DOMAIN slides : slides[j].title = title } }

\* C16: the findings of the HIGH slide are the (up to) 3 HIGH rows, those
\* of the MEDIUM slide the (up to) 3 MEDIUM rows and those of the top
\* findings slide the (up to) 5 rows of greatest risk score, in descending
\* order of risk score; rows of equal risk score keep their table order,
\* in the listing and at the cut-off.
C16_TopNStable ==
    /\ \A top \in FindingsOf("HIGH PRIORITY RISKS") : IsTopN(df, top, Matching(df, HIGH), 3)
    /\ \A top \in FindingsOf("MEDIUM PRIORITY RISKS") : IsTopN(df, top, Matching(df, MEDIUM), 3)
    /\ \A top \in FindingsOf("Top Risk Findings") : IsTopN(df, top, DOMAIN df.rows, 5)

\* C16 witness: six rows, the first a medium row of score 1.2, then four
\* High rows of score 1.2 and a HIGH row of score 8.5: the HIGH slide lists
\* rows 6, 2, 3 and the top findings slide rows 6, 1, 2, 3, 4.
C16_Witness ==
    /\ pc = "recommendations_slide"
    /\ Len(df.rows) = 6
    /\ FindingsOf("HIGH PRIORITY RISKS") = { <<6, 2, 3>> }
    /\ FindingsOf("MEDIUM PRIORITY RISKS") = { <<1>> }
    /\ FindingsOf("Top Risk Findings") = { <<6, 1, 2, 3, 4>> }

\* ------------------------------------------------------------------ inputs of the listed groups
\* The risk score of row i of n: the scores rise or fall by 1.0 from row
\* to row, except that rows t and t + 1 (if t > 0) hold the score of row
\* t plus fine[1] and fine[2] thousandths.
HeadRisk(n, rising, t, fine, i) ==
    LET base(k) == 1000 * (IF rising THEN k ELSE n + 1 - k)
    IN IF t > 0 /\ i = t THEN base(t) + fine[1]
       ELSE IF t > 0 /\ i = t + 1 THEN base(t) + fine[2]
       ELSE base(i)

\* A normalised table of n HIGH rows, each with a location and a hazard
\* type of its own.
HeadTable(n, rising, t, fine) ==
    [cols |-> Fields,
     rows |-> [i \in 1..n |->
                 [f \in Fields |->
                     CASE f = "Sr. No" -> Num(i * 1000)
                       [] f = "Priority" -> Str(HIGH)
                       [] f = "Priority_Score" -> Num(3000)
                       [] f = "Risk_Score" -> Num(HeadRisk(n, rising, t, fine, i))
                       [] f = "Location_Norm" -> Str(<<"P", UpperLetters[i]>>)
                       [] f = "Type of Hazard" -> Str(<<"H", LowerLetters[i]>>)
                       [] OTHER -> Str(<<"x">>)]]]

HeadTables ==
    { HeadTable(n, rising, t, fine) :
        n \in 1..MaxHeadRows, rising \in BOOLEAN, t \in 0..(MaxHeadRows - 1),
        fine \in { <<0, 0>>, <<0, 3>>, <<3, 0>> } }

\* create_ppt_report has built its first six slides.
InitHead ==
    /\ pc = "location_slide"
    /\ raw = NoTable
    /\ df \in HeadTables
    /\ kpis = compute_kpis(df)
    /\ err = "none"
    /\ NoRollups
    /\ NoClean
    /\ source = [kind |-> "array", objs |-> <<>>]
    /\ company_name = COMPANY_NAME
    /\ audit_date = RunDate
    /\ logo_file = "missing"
    /\ USE_GEMINI = TRUE
    /\ remote_calls = NarrativeSlots
    /\ last_call = [outcome |-> "no_response", result |-> None]
    /\ requests = ChartNames \o <<"executive summary">> \o Priorities
    /\ prompt = priority_details_prompt(df, PriorityLit("ALL"))
    /\ faults = {}
    /\ logo_base64 = "None"
    /\ charts = ChartNames
    /\ summaries = [c \in ChartSet |-> NarrativeText]
    /\ exec_summary = None
    /\ priority_details = [q \in PrioritySet |-> None]
    /\ html = rendered(kpis, summaries, exec_summary, priority_details, df, logo_base64)
    /\ slides = <<TitleSlide(logo_file),
                  [title |-> "Executive Summary", body |-> Placeholder, findings |-> <<>>, picture |-> FALSE, stats |-> NoKpis],
                  [title |-> "Key Performance Indicators", body |-> <<>>, findings |-> <<>>, picture |-> FALSE,
                   stats |-> compute_kpis(df)],
                  [title |-> "Risk Distribution Overview", body |-> <<>>, findings |-> <<>>, picture |-> FALSE,
                   stats |-> risk_distribution_stats(df)],
                  [title |-> "HIGH PRIORITY RISKS", body |-> Placeholder,
                   findings |-> top_findings(df, priority_df(df, HIGH)), picture |-> FALSE, stats |-> NoKpis],
                  [title |-> "MEDIUM PRIORITY RISKS", body |-> Placeholder,
                   findings |-> top_findings(df, priority_df(df, MEDIUM)), picture |-> FALSE, stats |-> NoKpis]>>
    /\ ppt_path = Unset
    /\ writes = IF html.written THEN <<HtmlFile(audit_date, html)>> ELSE <<>>

SpecHead == InitHead /\ [][NextRollup]_vars

\* ------------------------------------------------------------------ claims on the listed groups
\* lines lists at most n groups of the table, each once.
ListsGroups(d, key, lines, n) ==
    /\ Len(lines) = IF Cardinality(GroupKeys(d, key)) < n
                    THEN Cardinality(GroupKeys(d, key)) ELSE n
    /\ \A i \in DOMAIN lines : lines[i].key \in GroupKeys(d, key)
    /\ \A i, j \in DOMAIN lines : i # j => lines[i].key # lines[j].key

\* The groups of the table that lines does not list.
Omitted(d, key, lines) ==
    { g \in GroupKeys(d, key) : \A i \in DOMAIN lines : lines[i].key # g }

\* No omitted group has a greater total risk than a listed one.
GreatestTotals(d, key, lines) ==
    \A g \in Omitted(d, key, lines) : \A i \in DOMAIN lines :
        RiskSum(d, GroupRows(d, key, g))
            <= RiskSum(d, GroupRows(d, key, lines[i].key))

\* The total risk of a group rounded to two decimals, an exact half
\* upwards.
RoundedTotal(d, key, g) ==
    10 * ((RiskSum(d, GroupRows(d, key, g)) + 5) \div 10)

\* No omitted group has a greater rounded total risk than a listed one.
GreatestRoundedTotals(d, key, lines) ==
    \A g \in Omitted(d, key, lines) : \A i \in DOMAIN lines :
        RoundedTotal(d, key, g) <= RoundedTotal(d, key, lines[i].key)

\* C17 as stated: the location slide lists at most 10 groups and the
\* hazard slide at most 8, and no omitted group has a strictly greater
\* total risk than a listed one.
C17_GreatestTotalsListed ==
    /\ pc \in {"hazard_slide", "top_findings_slide"} =>
          /\ ListsGroups(df, "Location_Norm", location_lines, 10)
          /\ GreatestTotals(df, "Location_Norm", location_lines)
    /\ pc = "top_findings_slide" =>
          /\ ListsGroups(df, "Type of Hazard", hazard_lines, 8)
          /\ GreatestTotals(df, "Type of Hazard", hazard_lines)

\* C17 amended: the location slide lists at most 10 groups and the hazard
\* slide at most 8, and no omitted group has a strictly greater total
\* risk rounded to two decimals than a listed one.
C17_GreatestRoundedTotalsListed ==
    /\ pc \in {"hazard_slide", "top_findings_slide"} =>
          /\ ListsGroups(df, "Location_Norm", location_lines, 10)
          /\ GreatestRoundedTotals(df, "Location_Norm", location_lines)
    /\ pc = "top_findings_slide" =>
          /\ ListsGroups(df, "Type of Hazard", hazard_lines, 8)
          /\ GreatestRoundedTotals(df, "Type of Hazard", hazard_lines)

\* C17 witness: of eleven groups with rising totals the location slide
\* lists ten and the hazard slide eight, the group of the first row on
\* neither.
C17_Witness ==
    /\ pc = "top_findings_slide"
    /\ Len(df.rows) = 11
    /\ Len(location_lines) = 10
    /\ Len(hazard_lines) = 8
    /\ location_lines[1].key = <<"P", "K">>
    /\ <<"P", "A">> \in Omitted(df, "Location_Norm", location_lines)
    /\ <<"H", "a">> \in Omitted(df, "Type of Hazard", hazard_lines)

\* ------------------------------------------------------------------ inputs of create_ppt_report
\* company_name arguments: the COMPANY_NAME of the source and two others.
Companies ==
    { COMPANY_NAME, <<"A","c","m","e"," ","C","o","r","p">>, <<"X">> }

\* audit_date arguments: year, month and day joined by dashes, slashes,
\* dots or spaces.
Dates ==
    { y \o s1 \o mo \o s2 \o dy :
        y \in { <<"2","0","2","4">>, <<"2","0","2","5">> },
        mo \in { <<"0","1">>, <<"1","2">> },
        dy \in { <<"0","5">>, <<"3","1">> },
        s1 \in { <<"-">>, <<"/">>, <<".">>, <<" ">> },
        s2 \in { <<"-">>, <<"/">>, <<".">>, <<" ">> } }

\* generate_ppt_report is called for a table of one row, after the HTML
\* report was written.
InitPath ==
    /\ pc = "title_slide"
    /\ raw = NoTable
    /\ df = HeadTable(1, TRUE, 0, <<0, 0>>)
    /\ kpis = compute_kpis(df)
    /\ err = "none"
    /\ NoRollups
    /\ NoClean
    /\ source = [kind |-> "array", objs |-> <<>>]
    /\ company_name \in Companies
    /\ audit_date \in Dates
    /\ logo_file \in LogoFiles
    /\ USE_GEMINI = TRUE
    /\ remote_calls = NarrativeSlots
    /\ last_call = [outcome |-> "text", result |-> NarrativeText]
    /\ requests = ChartNames \o <<"executive summary">> \o Priorities
    /\ prompt = priority_details_prompt(df, PriorityLit("ALL"))
    /\ faults = {}
    /\ logo_base64 = IF logo_file = "ok" THEN "data:image/png;base64" ELSE "None"
    /\ charts = ChartNames
    /\ summaries = [c \in ChartSet |-> NarrativeText]
    /\ exec_summary = NarrativeText
    /\ priority_details = [q \in PrioritySet |-> NarrativeText]
    /\ html = rendered(kpis, summaries, exec_summary, priority_details, df, logo_base64)
    /\ slides = <<>>
    /\ ppt_path = Unset
    /\ writes = IF html.written THEN <<HtmlFile(audit_date, html)>> ELSE <<>>

NextPath ==
    \/ CreateTitleSlide
    \/ CreateExecutiveSummarySlide
    \/ CreateKpiSlide
    \/ CreateRiskDistributionSlide
    \/ CreateHighPrioritySlide
    \/ CreateMediumPrioritySlide
    \/ CreateLocationAnalysisSlide
    \/ CreateHazardAnalysisSlide
    \/ CreateTopFindingsSlide
    \/ CreateRecommendationsSlide
    \/ SavePresentation

SpecPath == InitPath /\ [][NextPath]_vars

\* ------------------------------------------------------------------ inputs of build_html
\* A normalised table of n rows numbered 1..n, the priorities in turn
\* HIGH, MEDIUM and LOW.
HtmlTable(n) ==
    [cols |-> Fields,
     rows |-> [i \in 1..n |->
                 [f \in Fields |->
                    CASE f = "Sr. No" -> Num(i * 1000)
                      [] f = "Priority" ->
                           Str(CASE i % 3 = 1 -> HIGH [] i % 3 = 2 -> MEDIUM
                                 [] OTHER -> LOW)
                      [] f \in {"Priority_Score", "Risk_Score"} -> Num(0)
                      [] OTHER -> Str(<<"x">>)]]]

\* build_html called with 0..MaxHtmlRows records, every chart insight a
\* text, the executive summary and the priority details a text or None.
InitHtml ==
    /\ pc = "build_html"
    /\ raw = NoTable
    /\ df \in { HtmlTable(n) : n \in 0..MaxHtmlRows }
    /\ kpis = compute_kpis(df)
    /\ err = "none"
    /\ NoRollups
    /\ NoClean
    /\ source = [kind |-> "array", objs |-> <<>>]
    /\ company_name = COMPANY_NAME
    /\ audit_date = RunDate
    /\ logo_file \in {"ok", "missing"}
    /\ USE_GEMINI = TRUE
    /\ remote_calls = NarrativeSlots
    /\ last_call = [outcome |-> "text", result |-> NarrativeText]
    /\ requests = ChartNames \o <<"executive summary">> \o Priorities
    /\ prompt = priority_details_prompt(df, PriorityLit("ALL"))
    /\ faults = {}
    /\ logo_base64 = encode_image_to_base64(logo_file).result
    /\ charts = ChartNames
    /\ summaries = [c \in ChartSet |-> NarrativeText]
    /\ exec_summary \in {None, NarrativeText}
    /\ \E t \in {None, NarrativeText} : priority_details = [q \in PrioritySet |-> t]
    /\ html = NoHtml
    /\ slides = <<>>
    /\ ppt_path = Unset
    /\ writes = IF html.written THEN <<HtmlFile(audit_date, html)>> ELSE <<>>

NextHtml == BuildHtml

SpecHtml == InitHtml /\ [][NextHtml]_vars

\* ------------------------------------------------------------------ claims on build_html
\* The first n elements of a sequence, all of them when it is shorter.
FirstRows(rows, n) == SubSeq(rows, 1, IF Len(rows) < n THEN Len(rows) ELSE n)

\* C24: every record handed to build_html is one row of the dataset
\* table of the HTML report, in the order handed in, whatever the number
\* of records; the four KPI values are in the KPI grid; only the
\* exportable summary table is capped, at the first 30 records.
C24_EveryRecordAndKpiRendered ==
    (pc # "build_html" /\ "html_file" \notin faults) =>
        /\ html.written
        /\ html.table = RowNumbers(df)
        /\ html.kpis = kpis
        /\ html.summary = FirstRows(RowNumbers(df), 30)

\* ------------------------------------------------------------------ generate_ppt_report on tables of any size
\* What now().strftime("%Y-%m-%d") gives: the day of the first run, or
\* the day after.
ClockDates == { RunDate, <<"2","0","2","4","-","0","1","-","0","6">> }

\* generate_ppt_report is called for a normalised table of 0..MaxMainRows
\* rows, every narrative a text; no HTML report was written before.
InitDeck ==
    /\ pc = "title_slide"
    /\ raw = NoTable
    /\ df \in { HtmlTable(n) : n \in 0..MaxMainRows }
    /\ kpis = compute_kpis(df)
    /\ err = "none"
    /\ NoRollups
    /\ NoClean
    /\ source = [kind |-> "array", objs |-> <<>>]
    /\ company_name = COMPANY_NAME
    /\ audit_date \in ClockDates
    /\ logo_file \in LogoFiles
    /\ USE_GEMINI = TRUE
    /\ remote_calls = NarrativeSlots
    /\ last_call = [outcome |-> "text", result |-> NarrativeText]
    /\ requests = ChartNames \o <<"executive summary">> \o Priorities
    /\ prompt = priority_details_prompt(df, PriorityLit("ALL"))
    /\ faults = {}
    /\ logo_base64 = IF logo_file = "ok" THEN "data:image/png;base64" ELSE "None"
    /\ charts = ChartNames
    /\ summaries = [c \in ChartSet |-> NarrativeText]
    /\ exec_summary \in {None, NarrativeText}
    /\ priority_details = [q \in PrioritySet |-> NarrativeText]
    /\ html = NoHtml
    /\ slides = <<>>
    /\ ppt_path = Unset
    /\ writes = <<>>

SpecDeck == InitDeck /\ [][NextPath]_vars

\* C27: for a table of zero rows create_risk_distribution_slide divides
\* by the zero total and raises instead of reporting 0%: the deck ends
\* with the slide before it, generate_ppt_report returns None and no slide
\* deck is saved.
C27_NoDeckForEmptyTable ==
    Len(df.rows) = 0 =>
        /\ pc \in {"title_slide", "exec_slide", "kpi_slide", "risk_slide", "done"}
        /\ \A i \in DOMAIN slides : slides[i].title # "Risk Distribution Overview"
        /\ ppt_path \in {Unset, None}
        /\ writes = <<>>
        /\ (pc = "done" /\ faults = {}) =>
              /\ Len(slides) = 3
              /\ slides[3].title = "Key Performance Indicators"
              /\ ppt_path = None
              /\ err = "none"

\* C27 witness: the deck of a table of zero rows got its first three
\* slides, nothing but the risk distribution slide failed, and
\* generate_ppt_report returned None.
C27_Witness ==
    /\ Len(df.rows) = 0
    /\ pc = "done"
    /\ faults = {}
    /\ Len(slides) = 3
    /\ ppt_path = None

\* ------------------------------------------------------------------ the counts of compute_kpis and of the risk distribution slide
\* create_risk_distribution_slide is called for a table whose KPIs were
\* computed.
InitStats ==
    /\ pc = "risk_slide"
    /\ raw = NoTable
    /\ df \in KpiTables
    /\ kpis = compute_kpis(df)
    /\ err = "none"
    /\ NoRollups
    /\ NoClean
    /\ NoMain

NextStats ==
    \/ ComputeKpis
    \/ CreateRiskDistributionSlide

\* compute_kpis, or create_risk_distribution_slide, on the same tables.
InitEither ==
    \/ InitKpi
    \/ InitStats

SpecStats == InitEither /\ [][NextStats]_vars

\* The rows counted in one of the buckets at least.
Labelled(d) == Matching(d, HIGH) \cup Matching(d, MEDIUM) \cup Matching(d, LOW)

\* C30: the buckets high, med and low are disjoint, a row being counted
\* in one of them at most; when every row's priority is HIGH, MEDIUM or
\* LOW in any letter case, high + med + low = total; and the counts on
\* the risk distribution slide are those compute_kpis returns for the
\* same table.
C30_BucketsDisjointAndSlideAgrees ==
    /\ kpis # NoKpis =>
          /\ kpis.high + kpis.med + kpis.low = Cardinality(Labelled(df))
          /\ Matching(df, HIGH) \cap Matching(df, MEDIUM) = {}
          /\ Matching(df, HIGH) \cap Matching(df, LOW) = {}
          /\ Matching(df, MEDIUM) \cap Matching(df, LOW) = {}
          /\ Labelled(df) = DOMAIN df.rows =>
                kpis.high + kpis.med + kpis.low = kpis.total
    /\ \A i \in DOMAIN slides :
          slides[i].title = "Risk Distribution Overview" =>
              /\ slides[i].stats = compute_kpis(df)
              /\ slides[i].stats = kpis

\* C30 witness: the risk distribution slide of a table of three rows
\* labelled "high", "MEDIUM" and "Low" shows one row in each bucket and a
\* total of three, as compute_kpis does.
C30_Witness ==
    /\ pc = "high_slide"
    /\ Len(df.rows) = 3
    /\ df.rows[1]["Priority"] = Str(<<"h","i","g","h">>)
    /\ df.rows[2]["Priority"] = Str(MEDIUM)
    /\ df.rows[3]["Priority"] = Str(<<"L","o","w">>)
    /\ kpis = [high |-> 1, med |-> 1, low |-> 1, total |-> 3]
    /\ Len(slides) = 1
    /\ slides[1].stats = kpis

\* ------------------------------------------------------------------ runs of main on the same input
\* The runs of main begun so far: each writes the HTML report once.
Runs == Cardinality({ i \in DOMAIN writes : writes[i].path = OUTPUT_HTML })

\* A run of main on a table of one row has written the HTML report, every
\* narrative a text, and is about to build the slide deck.
InitRerun ==
    /\ pc = "title_slide"
    /\ raw = NoTable
    /\ df \in { HtmlTable(n) : n \in 1..MaxMainRows }
    /\ kpis = compute_kpis(df)
    /\ err = "none"
    /\ NoRollups
    /\ NoClean
    /\ source = [kind |-> "array", objs |-> <<>>]
    /\ company_name = COMPANY_NAME
    /\ audit_date \in ClockDates
    /\ logo_file \in {"ok", "missing"}
    /\ USE_GEMINI = TRUE
    /\ remote_calls = NarrativeSlots
    /\ last_call = [outcome |-> "text", result |-> NarrativeText]
    /\ requests = ChartNames \o <<"executive summary">> \o Priorities
    /\ prompt = priority_details_prompt(df, PriorityLit("ALL"))
    /\ faults = {}
    /\ logo_base64 = encode_image_to_base64(logo_file).result
    /\ charts = ChartNames
    /\ summaries = [c \in ChartSet |-> NarrativeText]
    /\ exec_summary = NarrativeText
    /\ priority_details = [q \in PrioritySet |-> NarrativeText]
    /\ html = rendered(kpis, summaries, exec_summary, priority_details, df, logo_base64)
    /\ slides = <<>>
    /\ ppt_path = Unset
    /\ writes = <<HtmlFile(audit_date, html)>>

\* main is run again on the same data file, logo and credential, and
\* generate_text answers every request as before: the steps up to
\* build_html rebuild what the run before built, with the audit date the
\* clock gives now (line 1786), and write the HTML report again.
RunAgain ==
    /\ pc = "done"
    /\ Runs < MaxRuns
    /\ \E d \in ClockDates : audit_date' = d
    /\ html' = rendered(kpis, summaries, exec_summary, priority_details, df, logo_base64)
    /\ writes' = Append(writes, HtmlFile(audit_date', html'))
    /\ slides' = <<>>
    /\ ppt_path' = Unset
    /\ faults' = {}
    /\ pc' = "title_slide"
    /\ UNCHANGED <<raw, df, kpis, err, rollupVars, cleanVars, textVars, narrativeVars,
                   source, company_name, logo_file, logo_base64, charts>>

NextRerun ==
    \/ NextPath
    \/ RunAgain

SpecRerun == InitRerun /\ [][NextRerun]_vars

\* ------------------------------------------------------------------ claims on runs of main
\* C25: two runs of main on the same input data, generate_text answering
\* the same, write the same files: each file of the second run has the
\* path and the content the first run gave it, and so replaces it.
C25_RerunWritesSameFiles ==
    \A i, j \in DOMAIN writes :
        (writes[i].path = OUTPUT_HTML <=> writes[j].path = OUTPUT_HTML)
            => writes[i] = writes[j]

\* ------------------------------------------------------------------ claims on the slide-deck path
IsAlnum(c) ==
    \/ IsDigit(c)
    \/ \E i \in DOMAIN LowerLetters : c \in {LowerLetters[i], UpperLetters[i]}

\* The text with every character that is neither letter nor digit
\* replaced by an underscore.
Underscored(t) == [i \in DOMAIN t |-> IF IsAlnum(t[i]) THEN t[i] ELSE "_"]

\* C19: the path of the saved slide deck is
\* <CompanyName>_Audit_Report_<date>.pptx, CompanyName being derived from
\* the company_name argument and <date> being the audit date with every
\* non-alphanumeric separator replaced by an underscore.
C19_PathFromCompanyAndDate ==
    ppt_path.k = "str" =>
        ppt_path.s = Underscored(company_name)
                       \o <<"_","A","u","d","i","t","_","R","e","p","o","r","t","_">>
                       \o Underscored(audit_date)
                       \o <<".","p","p","t","x">>

\* ------------------------------------------------------------------ claims on generate_text and main
\* Every narrative request of the run has been made and has returned None.
AllTextAbsent ==
    /\ Len(requests) = NarrativeSlots
    /\ \A c \in ChartSet : summaries[c] = None
    /\ exec_summary = None
    /\ \A q \in PrioritySet : priority_details[q] = None

SlideBody(title) ==
    LET I == { i \in DOMAIN slides : slides[i].title = title }
    IN IF I = {} THEN <<>> ELSE slides[CHOOSE i \in I : TRUE].body

\* C1: when every generate_text call returns None (and nothing else
\* fails), the run ends with both the HTML report and the slide deck
\* written, every narrative slot holding the placeholder.
C1_CompleteWithPlaceholders ==
    (pc \in {"done", "aborted"} /\ AllTextAbsent /\ faults = {}) =>
        /\ pc = "done"
        /\ err = "none"
        /\ html.written
        /\ ppt_path.k = "str"
        /\ html.exec_summary = Str(Placeholder)
        /\ \A c \in ChartSet : html.insights[c] = Str(Placeholder)
        /\ html.priority_all = Str(Placeholder)
        /\ SlideBody("Executive Summary") = Placeholder
        /\ SlideBody("HIGH PRIORITY RISKS") = Placeholder
        /\ SlideBody("MEDIUM PRIORITY RISKS") = Placeholder

\* C4: generate_text never raises; when the remote call fails in any way,
\* or no credential is configured, it returns None.
C4_NeverRaises ==
    /\ last_call.result.k \in {"unset", "none", "str"}
    /\ last_call.outcome \in (RemoteOutcomes \ {"text"}) \cup {"not_called"}
          => last_call.result = None
    /\ \A c \in ChartSet : summaries[c].k \in {"unset", "none", "str"}
    /\ exec_summary.k \in {"unset", "none", "str"}
    /\ \A q \in PrioritySet : priority_details[q].k \in {"unset", "none", "str"}

\* C4 witness: each way the remote call can fail has been met in one run:
\* the run went on with None.
C4_Witness ==
    /\ USE_GEMINI
    /\ pc = "build_html"
    /\ last_call.outcome = "text_raises"
    /\ last_call.result = None
    /\ priority_details["ALL"] = None
    /\ exec_summary = NarrativeText

\* C5: without a credential (USE_GEMINI false) every generate_text call
\* returns None and the remote service is never used.
C5_NoRemoteUseWithoutCredential ==
    ~USE_GEMINI =>
        /\ remote_calls = 0
        /\ last_call.outcome \in {"none", "not_called"}
        /\ last_call.result \in {Unset, None}
        /\ \A c \in ChartSet : summaries[c] \in {Unset, None}
        /\ exec_summary \in {Unset, None}
        /\ \A q \in PrioritySet : priority_details[q] \in {Unset, None}

\* The positions of main inside create_ppt_report.
SlidePcs == {"title_slide", "exec_slide", "kpi_slide", "risk_slide", "high_slide",
             "medium_slide", "location_slide", "hazard_slide",
             "top_findings_slide", "recommendations_slide", "save_ppt"}

\* C13: when building or saving the slide deck fails, generate_ppt_report
\* returns None and main ends without raising; the HTML report was written
\* before the slide deck was begun and is still on storage.
C13_DeckFailureCaughtAfterHtml ==
    /\ pc \in SlidePcs => (html.written /\ err = "none")
    /\ (faults \cap {"slide", "ppt_file"} # {}) =>
          /\ pc = "done"
          /\ err = "none"
          /\ ppt_path = None
          /\ html.written
          /\ html.rows = Len(df.rows)

\* C13 witness: all ten slides were built, saving failed, and the run
\* ended with the HTML report on storage.
C13_Witness ==
    /\ pc = "done"
    /\ "ppt_file" \in faults
    /\ Len(slides) = 10
    /\ ppt_path = None
    /\ html.written

\* C14: main is aborted only by a failure of load_data; a failure of any
\* later step (logo, chart, narrative request, HTML, slides) is caught and
\* main runs to its end.
C14_OnlyLoadFailureAborts ==
    pc = "aborted" => err \in {"FileNotFoundError", "JSONDecodeError"}

\* The titles of the slides built so far, in order.
SlideTitles == [i \in DOMAIN slides |-> slides[i].title]

\* C15: a slide deck that is saved has the ten sections title, executive
\* summary, KPI overview, risk distribution, high-priority detail,
\* medium-priority detail, location rollup, hazard-type rollup, top risk
\* findings and recommendations, in this order, for every input table.
C15_TenSectionsInOrder ==
    ppt_path.k = "str" =>
        SlideTitles = <<"Title", "Executive Summary", "Key Performance Indicators",
                        "Risk Distribution Overview", "HIGH PRIORITY RISKS",
                        "MEDIUM PRIORITY RISKS", "Location Risk Analysis",
                        "Hazard Type Analysis", "Top Risk Findings",
                        "Recommendations & Next Steps">>

\* C15 witness: the deck of a run over a table of two rows has been saved.
C15_Witness ==
    /\ pc = "done"
    /\ ppt_path.k = "str"
    /\ Len(df.rows) = 2
    /\ Len(slides) = 10

\* The rows listed are the n rows of greatest risk score of the table, or
\* all its rows when it has fewer.
HighestRisk(d, rows, n) ==
    /\ Len(rows) = IF Len(d.rows) < n THEN Len(d.rows) ELSE n
    /\ \A i \in DOMAIN rows : rows[i] \in DOMAIN d.rows
    /\ \A i, j \in DOMAIN rows : i # j => rows[i] # rows[j]
    /\ \A x \in DOMAIN d.rows : (\A i \in DOMAIN rows : rows[i] # x)
            => \A i \in DOMAIN rows :
                  d.rows[x]["Risk_Score"].n <= d.rows[rows[i]]["Risk_Score"].n

\* s is text of at most n characters that t begins with.
PrefixUpTo(s, t, n) ==
    /\ Len(s) = IF Len(t) < n THEN Len(t) ELSE n
    /\ \A i \in DOMAIN s : s[i] = t[i]

\* C18: for every normalised table the prompt of the executive summary
\* is built without an exception; it holds the four KPI counts and one
\* line for each of at most 8 rows, the rows of highest risk score, each
\* line giving sequence number, risk score, location, hazard type and at
\* most the first 80 characters of the observation.
C18_ExecPromptBuilt ==
    /\ (pc = "aborted" /\ Len(requests) = Len(ChartNames)) => err # "TypeError"
    /\ (pc = "priority_details" /\ Len(requests) = Len(ChartNames) + 1) =>
          /\ prompt.kpis = kpis
          /\ HighestRisk(df, prompt.rows, 8)
          /\ Len(prompt.lines) = Len(prompt.rows)
          /\ \A i \in DOMAIN prompt.lines :
                LET row == df.rows[prompt.rows[i]]
                    line == prompt.lines[i]
                IN /\ line.sr = row["Sr. No"]
                   /\ line.risk = row["Risk_Score"]
                   /\ line.location = row["Location_Norm"]
                   /\ line.hazard = row["Type of Hazard"]
                   /\ row["Observation"].k = "str"
                   /\ PrefixUpTo(line.observation, row["Observation"].s, 80)

\* C20: in a run of main each narrative slot (six chart insights,
\* executive summary, priority HIGH, MEDIUM, LOW, ALL) is requested from
\* generate_text exactly once; a request that returned None is not made
\* again, and a request uses the remote service at most once.
C20_EachSlotRequestedOnce ==
    /\ \A i, j \in DOMAIN requests : i # j => requests[i] # requests[j]
    /\ \A i \in DOMAIN requests :
          requests[i] \in ChartSet \cup {"executive summary"} \cup PrioritySet
    /\ remote_calls <= Len(requests)
    /\ pc \in {"build_html", "done"} \cup SlidePcs =>
          /\ Len(requests) = 11
          /\ { requests[i] : i \in DOMAIN requests }
                = ChartSet \cup {"executive summary"} \cup PrioritySet

\* C20 witness: every one of the eleven requests used the remote service
\* and came back None; the run built its HTML input from eleven requests.
C20_Witness ==
    /\ pc = "build_html"
    /\ USE_GEMINI
    /\ AllTextAbsent
    /\ Len(requests) = 11
    /\ remote_calls = 11

\* C21: when the logo file is missing or cannot be read, the run raises
\* no error for it and goes on without a logo: encode_image_to_base64
\* returns None, the HTML report holds no logo and the title slide holds
\* no picture.
C21_RunProceedsWithoutLogo ==
    logo_file \in {"missing", "unreadable"} =>
        /\ "logo" \notin faults
        /\ logo_base64 \in {"unset", "None"}
        /\ pc \in {"chart", "chart_summary", "exec_summary", "priority_details",
                    "build_html", "done"} \cup SlidePcs => logo_base64 = "None"
        /\ html.written => ~html.logo
        /\ \A i \in DOMAIN slides : ~slides[i].picture

\* load_data raised.
LoadFailed ==
    /\ pc = "aborted"
    /\ err \in {"FileNotFoundError", "JSONDecodeError", "ValueError"}
    /\ raw = NoTable

\* C22: load_data fails when the path does not exist or the content is
\* no JSON array of objects (invalid JSON, an object, a scalar, an array
\* of non-objects), and returns a table only for a JSON array of objects.
C22_LoadFailsUnlessArrayOfObjects ==
    pc # "load" => (LoadFailed <=> source.kind # "array")

\* The narrative requests of a whole run, in the order claimed.
FixedRequests ==
    <<"Hazard Risk Breakdown", "Location vs Hazard Analysis",
      "Risk Contribution by Hazard Type", "Hierarchical Risk Distribution",
      "Risk vs Priority Correlation", "Total Risk Assessment by Location",
      "executive summary", "HIGH", "MEDIUM", "LOW", "ALL">>

\* The steps that may follow a step of main; any step may also be the
\* last one, when it raises.
FollowingSteps(p) ==
    CASE p = "load" -> {"prepare"}
      [] p = "prepare" -> {"kpis"}
      [] p = "kpis" -> {"logo"}
      [] p = "logo" -> {"chart"}
      [] p = "chart" -> {"chart_summary"}
      [] p = "chart_summary" -> {"chart", "exec_summary"}
      [] p = "exec_summary" -> {"priority_details"}
      [] p = "priority_details" -> {"priority_details", "build_html"}
      [] p = "build_html" -> {"title_slide"}
      [] p \in SlidePcs -> SlidePcs \cup {"done"}
      [] OTHER -> {}

\* Where the run stands fixes what has been built and requested so far.
ProgressMatchesStep ==
    /\ charts = SubSeq(ChartNames, 1, Len(charts))
    /\ requests = SubSeq(FixedRequests, 1, Len(requests))
    /\ Len(requests) <= Len(charts) + 5
    /\ Len(requests) < 6 => Len(charts) - Len(requests) \in {0, 1}
    /\ Len(requests) >= 6 => Len(charts) = 6
    /\ pc \in {"load", "prepare", "kpis", "logo"} =>
          charts = <<>> /\ requests = <<>> /\ logo_base64 = "unset"
    /\ pc \in {"load", "prepare", "kpis"} => kpis = NoKpis
    /\ pc = "load" => df = NoTable
    /\ pc = "chart" => Len(charts) < 6 /\ Len(requests) = Len(charts)
    /\ pc = "chart_summary" => Len(requests) = Len(charts) - 1
    /\ pc = "exec_summary" => Len(requests) = 6
    /\ pc = "priority_details" => Len(requests) \in 7..10
    /\ pc \in {"build_html", "done"} \cup SlidePcs => Len(requests) = 11
    /\ html.written <=> pc \in {"done"} \cup SlidePcs
    /\ slides # <<>> => html.written
    /\ ppt_path # Unset => pc = "done"

\* C23: the steps of main happen one at a time in a fixed order that
\* depends neither on the data nor on the outcome of the narrative
\* calls: load, normalise, KPIs, logo, then chart by chart the chart and
\* its insight, then the executive summary, then the priorities HIGH,
\* MEDIUM, LOW, ALL, then the HTML, then the slide deck.
C23_StepsInFixedOrder ==
    /\ []ProgressMatchesStep
    /\ [][pc' \in FollowingSteps(pc) \cup {"aborted"}]_vars

\* C23 witness: a run on a table of one row, every narrative absent, has
\* built six charts and made the eleven requests in order when the HTML
\* is about to be written.
C23_Witness ==
    /\ pc = "build_html"
    /\ Len(df.rows) = 1
    /\ AllTextAbsent
    /\ charts = ChartNames
    /\ requests = FixedRequests

\* build_html was called and raised.
BuildHtmlRaised ==
    /\ pc = "aborted"
    /\ Len(requests) = NarrativeSlots
    /\ ~html.written

\* C28: the slide deck is begun only after build_html has returned: no
\* slide exists, generate_ppt_report has no result and no deck file is
\* written unless the HTML report was written before; a run in which
\* build_html raised ends without a call of create_ppt_report.
C28_DeckOnlyAfterHtml ==
    /\ (pc \in SlidePcs \/ slides # <<>> \/ ppt_path # Unset) => html.written
    /\ \A i \in DOMAIN writes :
          writes[i].path # OUTPUT_HTML =>
              \E j \in 1..(i - 1) : writes[j].path = OUTPUT_HTML
    /\ BuildHtmlRaised =>
          /\ slides = <<>>
          /\ ppt_path = Unset
          /\ writes = <<>>

\* C28 witness: build_html raised on a chart insight that is None, after
\* all eleven requests; the run ended there.
C28_Witness ==
    /\ BuildHtmlRaised
    /\ err = "UndefinedError"
    /\ "html_file" \notin faults
    /\ slides = <<>>
    /\ ppt_path = Unset

\* C26: the aggregation operations (prepare_records, compute_kpis, the
\* rollups, the top-N selections) leave the table load_data produced as
\* it was: no column or row of it is added, replaced or reordered.
C26_LoadedTableUnchanged == df = raw

\* C5 witness: a run without credential has made all its narrative
\* requests.
C5_Witness ==
    /\ ~USE_GEMINI
    /\ Len(requests) = NarrativeSlots
    /\ remote_calls = 0
    /\ last_call = [outcome |-> "not_called", result |-> None]

====
